---- MODULE Spec2Model ----
(***************************************************************************)
(* A model of the mini-nu job coordinators.                                *)
(*                                                                         *)
(*   variant = "pool"  : src/src/main.rs with the ThreadPool of            *)
(*                       src/threaded/src/thread_pool.rs (a rendezvous     *)
(*                       channel, an atomic active_count, a lock+condvar). *)
(*   variant = "tokio" : src/threaded/src/main.rs, the registry+kill       *)
(*                       variant (job table, ctrlc handler sweep, shutdown *)
(*                       channel, active_jobs counter).                    *)
(*   variant = "bg"    : src/p2-background/src/main.rs and                 *)
(*                       src/background/src/main.rs, one script in a       *)
(*                       background thread with a job-table entry.         *)
(*   variant = "sandbox" : src/p4-sandbox/src/main.rs, one script parsed,  *)
(*                       checked and evaluated by main.                    *)
(*                                                                         *)
(* Each thread of the program is a small program counter; one action is    *)
(* one atomic step of one thread (an atomic instruction, a channel         *)
(* operation, or a critical section of a lock).                            *)
(***************************************************************************)
EXTENDS Integers, Sequences, FiniteSets, TLC

\* Bounds of the model.
MaxLines == 2
PoolSize == 2
MaxInterrupts == 1
MaxRepeats == 1
MaxList == 2
MaxDur == 2
MaxTime == 3
MaxErrors == 2

\* Program constants: the capacities of the two tokio channels.
LineChanCap == 100
ShutdownCap == 1

JobIds == 0..(MaxLines - 1)
NoJob == -1

VARIABLES
    variant,          \* which binary runs: "pool" | "tokio" | "bg" | "sandbox"
    nlines,           \* number of lines the input source holds (lines are 1..nlines)
    next_line,        \* the next line the reader thread will read
    reader_pc,        \* reader thread: "read" | "done"
    read_error,       \* the reader ended on a read error
    sigint,           \* number of interrupt signals delivered so far
    submitted,        \* jobs handed over by the event loop, in order: [id, line]
    reports,          \* job id -> the kinds ("ok" | "err") of its report lines, in order
    panicked,         \* job ids whose body panicked
    \* ---- thread-pool variant
    size,             \* the size the pool was built with
    events,           \* the mpsc event channel (FIFO): Line / Interrupt / EOF
    pc_main,          \* main thread of the pool variant
    i,                \* main's job counter
    cur_line,         \* the line of the Line event main is submitting
    wpc,              \* worker thread -> "recv" | "got" | "run" | "ran" | "notify" | "dead"
    wjob,             \* worker thread -> the job id it holds, or NoJob
    active_count,     \* ThreadPool.active_count
    completion_lock,  \* holder of completion_pair.0: "free" | "main"
    received,         \* job id -> set of workers whose recv() returned it
    runs,             \* job id -> number of times its body was entered
    \* ---- registry+kill (tokio) variant
    line_chan,        \* the line channel (tokio mpsc, capacity LineChanCap)
    rx_open,          \* line_rx and shutdown_rx are alive (process_input_lines runs)
    shutdown_chan,    \* number of messages in the shutdown channel
    interrupt,        \* the process-wide interrupt flag (engine signals)
    hpc,              \* ctrlc handler: "idle" | "lock" | "sweep" | "send"
    job_ids,          \* handler: ids collected from the table, still to kill
    first_error,      \* handler: the result of the sweep so far (NoError or an error)
    jobs_lock,        \* holder of engine_state.jobs: "free" | "handler" | "poisoned"
    jobs_table,       \* job numbers that have an entry in the job table
    job_number,       \* next job number of process_input_lines
    active_jobs,      \* the active_jobs counter
    tpc,              \* main task: "loop" | "wait" | "done"
    jpc,              \* job -> "none" | "spawned" | "eval" | "blocked" | "remove"
                      \*        | "finished" | "done"
    child,            \* job -> the external process registered with its ThreadJob:
                      \*        "none" | "alive" | "exited" | "killed"
    killed,           \* jobs the sweep has killed and removed while process_job runs
    at_interrupt,     \* jobs whose body was pending when a signal was delivered
                      \* and has not ended yet
    collected,        \* handler: the ids it collected when it took the lock
    visits,           \* handler: the kill_and_remove calls of this sweep, in order,
                      \*          each with its result
    \* ---- thread-pool variant run on jobs that sleep (the ordering tests)
    dur,              \* job id -> the time its body sleeps (0: durations not modelled)
    now,              \* the clock
    start,            \* job id -> the time its body was entered, or NoJob
    order,            \* job ids in the order of their report lines
    \* ---- single-job background variant (background, p2-background)
    code_snippet,     \* what the script given on the command line does
    bg_main,          \* main thread: "poll_finished" | "poll_flag" | "sleep" | "exited"
    background_thread,\* the spawned thread: "parse" | "eval" | "blocked" | "remove"
                      \*                     | "finished"
    bg_interrupt,     \* the interrupt flag set by the ctrlc handler
    bg_table,         \* job ids that have an entry in the job table
    bg_child,         \* external process of the job: "none" | "alive" | "exited" | "killed"
    kill_calls,       \* number of kill_and_remove calls made by main
    exit_path,        \* how main left the poll loop: "none" | "finished" | "interrupt"
    bg_out,           \* the thread's output lines, by kind ("ok" | "err")
    \* ---- sandbox front end (p4-sandbox)
    script,           \* the script argument, as what parsing it yields: its parse
                      \* errors and its compile errors, in order
    sb_pc,            \* main: "args" | "boot" | "parse" | "merge" | "eval" | "value"
                      \*       | "print" | "exited"
    evals,            \* number of times the block was evaluated
    sb_error,         \* the error main returned, or NoSbError
    sb_out            \* lines printed on stdout

poolVars == <<size, events, pc_main, i, cur_line, wpc, wjob, active_count,
              completion_lock, received, runs>>
tokioVars == <<line_chan, rx_open, shutdown_chan, interrupt, hpc, job_ids,
               first_error, jobs_lock, jobs_table, job_number, active_jobs,
               tpc, jpc, child, killed, at_interrupt, collected, visits>>
inputVars == <<nlines, next_line, reader_pc, read_error>>
sweepVars == <<collected, visits>>
outVars == <<submitted, reports, panicked>>
timeVars == <<dur, now, start, order>>
bgVars == <<code_snippet, bg_main, background_thread, bg_interrupt, bg_table,
            bg_child, kill_calls, exit_path, bg_out>>
sbVars == <<script, sb_pc, evals, sb_error, sb_out>>
soloVars == <<bgVars, sbVars>>
vars == <<variant, inputVars, sigint, outVars, poolVars, tokioVars, timeVars,
          soloVars>>

\* The results of the handler's sweep: Ok(()), the error of the kill of job j,
\* the error made for a poisoned mutex.
NoError == [kind |-> "ok", id |-> NoJob]
KillError(j) == [kind |-> "kill", id |-> j]
PoisonError == [kind |-> "poisoned", id |-> NoJob]

Workers == 1..size

LineEvent(l) == [type |-> "Line", line |-> l]
InterruptEvent == [type |-> "Interrupt", line |-> 0]
EOFEvent == [type |-> "EOF", line |-> 0]

\* The report lines of a job whose closure returned a list of n values: one
\* "Thread id: value" line for each element.
ListLines(n) == [k \in 1..n |-> "ok"]

\* Number of report lines of job j on the output streams.
ReportCount(j) == Len(reports[j])

(***************************************************************************)
(* Thread-pool variant                                                     *)
(***************************************************************************)

\* The input source and the output streams before anything has run.
InitCommon ==
    /\ nlines \in 0..MaxLines
    /\ next_line = 1
    /\ reader_pc = "read"
    /\ read_error = FALSE
    /\ sigint = 0
    /\ submitted = <<>>
    /\ reports = [j \in JobIds |-> <<>>]
    /\ panicked = {}

\* The clock and the report order before anything has run; d gives each job
\* the time its body sleeps.
TimeStart(d) ==
    /\ dur = d
    /\ now = 0
    /\ start = [j \in JobIds |-> NoJob]
    /\ order = <<>>

\* No script: the command line has no argument.
NoScript == [given |-> FALSE, parse_errors |-> <<>>, compile_errors |-> <<>>]

\* The error value of a sandbox run that has not failed.
NoSbError == [error |-> "none", msg |-> 0]

\* The state of the background variant when main enters its poll loop in
\* state m with script class c: run_script_in_background has added the job
\* (id 0) to the table and spawned the thread. m = "absent": another binary runs.
BgStart(m, c) ==
    /\ code_snippet = c
    /\ bg_main = m
    /\ background_thread = IF m = "absent" THEN "absent" ELSE "parse"
    /\ bg_interrupt = FALSE
    /\ bg_table = IF m = "absent" THEN {} ELSE {0}
    /\ bg_child = "none"
    /\ kill_calls = 0
    /\ exit_path = "none"
    /\ bg_out = <<>>

\* The state of the sandbox front end when main starts in state m on a script
\* whose parse gives the errors sc.
SbStart(m, sc) ==
    /\ script = sc
    /\ sb_pc = m
    /\ evals = 0
    /\ sb_error = NoSbError
    /\ sb_out = <<>>

\* Neither single-script binary runs.
SoloAbsent ==
    /\ BgStart("absent", "none")
    /\ SbStart("absent", NoScript)

\* ThreadPool::new(n) and the locals of main before the event loop.
PoolStart(n, m) ==
    /\ size = n
    /\ events = <<>>
    /\ pc_main = m
    /\ i = 0
    /\ cur_line = 0
    /\ wpc = [w \in 1..n |-> "recv"]
    /\ wjob = [w \in 1..n |-> NoJob]
    /\ active_count = 0
    /\ completion_lock = "free"
    /\ received = [j \in JobIds |-> {}]
    /\ runs = [j \in JobIds |-> 0]

\* The process is alive until main returns.
PoolAlive == variant = "pool" /\ pc_main \notin {"done", "panicked"}

\* stdin reader thread: forward one line as a Line event.
PoolReaderLine ==
    /\ PoolAlive
    /\ reader_pc = "read"
    /\ next_line <= nlines
    /\ events' = Append(events, LineEvent(next_line))
    /\ next_line' = next_line + 1
    /\ UNCHANGED <<variant, soloVars, timeVars, tokioVars, size, nlines, reader_pc, read_error, sigint, pc_main, i,
                   cur_line, wpc, wjob, active_count, completion_lock,
                   submitted, received, runs, reports, panicked>>

\* stdin reader thread: end of input, send EOF and finish.
PoolReaderEOF ==
    /\ PoolAlive
    /\ reader_pc = "read"
    /\ next_line > nlines
    /\ events' = Append(events, EOFEvent)
    /\ reader_pc' = "done"
    /\ UNCHANGED <<variant, soloVars, timeVars, tokioVars, size, nlines, next_line, read_error, sigint, pc_main, i,
                   cur_line, wpc, wjob, active_count, completion_lock,
                   submitted, received, runs, reports, panicked>>

\* A reader that would end on a read error without sending EOF.
PoolReaderErrNoEOF ==
    /\ PoolAlive
    /\ reader_pc = "read"
    /\ next_line <= nlines
    /\ reader_pc' = "done"
    /\ read_error' = TRUE
    /\ UNCHANGED <<variant, soloVars, timeVars, tokioVars, size, nlines, next_line, sigint, pc_main, i,
                   cur_line, wpc, wjob, active_count, completion_lock, events,
                   submitted, received, runs, reports, panicked>>

\* stdin reader thread: a read error breaks the loop; EOF is sent all the same.
PoolReaderErr ==
    /\ PoolAlive
    /\ reader_pc = "read"
    /\ next_line <= nlines
    /\ events' = Append(events, EOFEvent)
    /\ reader_pc' = "done"
    /\ read_error' = TRUE
    /\ UNCHANGED <<variant, soloVars, timeVars, tokioVars, size, nlines, next_line, sigint, pc_main, i,
                   cur_line, wpc, wjob, active_count, completion_lock,
                   submitted, received, runs, reports, panicked>>

\* ctrlc handler: send the Interrupt event (the channel is unbounded).
PoolSigInt ==
    /\ PoolAlive
    /\ sigint < MaxInterrupts
    /\ sigint' = sigint + 1
    /\ events' = Append(events, InterruptEvent)
    /\ UNCHANGED <<variant, soloVars, timeVars, tokioVars, size, inputVars, pc_main, i, cur_line, wpc, wjob,
                   active_count, completion_lock, submitted, received, runs,
                   reports, panicked>>

\* main: rx.recv() returns a Line event; main goes on to pool.execute.
MainRecvLine ==
    /\ variant = "pool"
    /\ pc_main = "recv"
    /\ events # <<>>
    /\ Head(events).type = "Line"
    /\ cur_line' = Head(events).line
    /\ events' = Tail(events)
    /\ pc_main' = "execute"
    /\ UNCHANGED <<variant, soloVars, timeVars, tokioVars, size, inputVars, sigint, i, wpc, wjob, active_count,
                   completion_lock, submitted, received, runs, reports, panicked>>

\* A loop that would look for an Interrupt anywhere in the channel and
\* handle it ahead of the events queued before it.
MainRecvInterruptFirst ==
    /\ variant = "pool"
    /\ pc_main = "recv"
    /\ \E k \in 1..Len(events) :
          /\ events[k].type = "Interrupt"
          /\ events' = SubSeq(events, 1, k - 1) \o SubSeq(events, k + 1, Len(events))
    /\ pc_main' = "wait_lock"
    /\ UNCHANGED <<variant, soloVars, timeVars, tokioVars, size, inputVars, sigint, i, cur_line, wpc, wjob,
                   active_count, completion_lock, submitted, received, runs,
                   reports, panicked>>

\* main: rx.recv() returns Interrupt; break out of the loop.
MainRecvInterrupt ==
    /\ variant = "pool"
    /\ pc_main = "recv"
    /\ events # <<>>
    /\ Head(events).type = "Interrupt"
    /\ events' = Tail(events)
    /\ pc_main' = "wait_lock"
    /\ UNCHANGED <<variant, soloVars, timeVars, tokioVars, size, inputVars, sigint, i, cur_line, wpc, wjob,
                   active_count, completion_lock, submitted, received, runs,
                   reports, panicked>>

\* main: rx.recv() returns EOF; break out of the loop.
MainRecvEOF ==
    /\ variant = "pool"
    /\ pc_main = "recv"
    /\ events # <<>>
    /\ Head(events).type = "EOF"
    /\ events' = Tail(events)
    /\ pc_main' = "wait_lock"
    /\ UNCHANGED <<variant, soloVars, timeVars, tokioVars, size, inputVars, sigint, i, cur_line, wpc, wjob,
                   active_count, completion_lock, submitted, received, runs,
                   reports, panicked>>

\* A send that would leave the job in the channel for a second receiver.
ExecuteDup(w) ==
    /\ variant = "pool"
    /\ pc_main = "execute"
    /\ wpc[w] = "recv"
    /\ wpc' = [wpc EXCEPT ![w] = "got"]
    /\ wjob' = [wjob EXCEPT ![w] = i]
    /\ received' = [received EXCEPT ![i] = @ \cup {w}]
    /\ submitted' = IF received[i] = {} THEN Append(submitted, [id |-> i, line |-> cur_line])
                    ELSE submitted
    /\ UNCHANGED <<variant, soloVars, timeVars, tokioVars, size, inputVars, sigint, events, pc_main, i, cur_line,
                   active_count, completion_lock, runs, reports, panicked>>

\* An execute after which the caller forgets to advance its job counter.
ExecuteNoIncr(w) ==
    /\ variant = "pool"
    /\ pc_main = "execute"
    /\ wpc[w] = "recv"
    /\ wpc' = [wpc EXCEPT ![w] = "got"]
    /\ wjob' = [wjob EXCEPT ![w] = i]
    /\ received' = [received EXCEPT ![i] = @ \cup {w}]
    /\ submitted' = Append(submitted, [id |-> i, line |-> cur_line])
    /\ pc_main' = "recv"
    /\ UNCHANGED <<variant, soloVars, timeVars, tokioVars, size, inputVars, sigint, events, i, cur_line,
                   active_count, completion_lock, runs, reports, panicked>>

\* An execute on a buffered channel: send returns although worker w is busy.
ExecuteBuffered(w) ==
    /\ variant = "pool"
    /\ pc_main = "execute"
    /\ wpc[w] \in {"recv", "got"}
    /\ wpc' = [wpc EXCEPT ![w] = "got"]
    /\ wjob' = [wjob EXCEPT ![w] = i]
    /\ received' = [received EXCEPT ![i] = @ \cup {w}]
    /\ submitted' = Append(submitted, [id |-> i, line |-> cur_line])
    /\ i' = i + 1
    /\ pc_main' = "recv"
    /\ UNCHANGED <<variant, soloVars, timeVars, tokioVars, size, inputVars, sigint, events, cur_line,
                   active_count, completion_lock, runs, reports, panicked>>

\* pool.execute(job i): the zero-capacity channel hands the closure to a worker
\* that is blocked in rx.recv(); send returns, main does i += 1 and loops.
Execute(w) ==
    /\ variant = "pool"
    /\ pc_main = "execute"
    /\ wpc[w] = "recv"
    /\ wpc' = [wpc EXCEPT ![w] = "got"]
    /\ wjob' = [wjob EXCEPT ![w] = i]
    /\ received' = [received EXCEPT ![i] = @ \cup {w}]
    /\ submitted' = Append(submitted, [id |-> i, line |-> cur_line])
    /\ i' = i + 1
    /\ pc_main' = "recv"
    /\ UNCHANGED <<variant, soloVars, timeVars, tokioVars, size, inputVars, sigint, events, cur_line,
                   active_count, completion_lock, runs, reports, panicked>>

\* pool.execute when every worker thread has died: all receivers are dropped,
\* send returns Err and the unwrap panics in main.
ExecuteDisconnected ==
    /\ variant = "pool"
    /\ pc_main = "execute"
    /\ \A w \in Workers : wpc[w] = "dead"
    /\ pc_main' = "panicked"
    /\ UNCHANGED <<variant, soloVars, timeVars, tokioVars, size, inputVars, sigint, events, i, cur_line, wpc, wjob,
                   active_count, completion_lock, submitted, received, runs,
                   reports, panicked>>

\* worker: active_count.fetch_add(1) and entry into job().
WorkerIncr(w) ==
    /\ PoolAlive
    /\ wpc[w] = "got"
    /\ active_count' = active_count + 1
    /\ runs' = [runs EXCEPT ![wjob[w]] = @ + 1]
    /\ wpc' = [wpc EXCEPT ![w] = "run"]
    /\ UNCHANGED <<variant, soloVars, timeVars, tokioVars, size, inputVars, sigint, events, pc_main, i, cur_line,
                   wjob, completion_lock, submitted, received, reports, panicked>>

\* A worker that an Err result would take down like a panic.
JobReturnErrFatal(w) ==
    /\ PoolAlive
    /\ wpc[w] = "run"
    /\ \E kind \in {"ok", "err"} :
          /\ reports' = [reports EXCEPT ![wjob[w]] = Append(@, kind)]
          /\ wpc' = [wpc EXCEPT ![w] = IF kind = "err" THEN "dead" ELSE "ran"]
    /\ UNCHANGED <<variant, soloVars, timeVars, tokioVars, size, inputVars, sigint, events, pc_main, i, cur_line,
                   wjob, active_count, completion_lock, submitted, received,
                   runs, panicked>>

\* worker: the job body returns, having printed its one report line
\* ("Thread id: value" on Ok, "Thread id: Error: ..." on Err).
JobReturn(w) ==
    /\ PoolAlive
    /\ wpc[w] = "run"
    /\ \E kind \in {"ok", "err"} :
          reports' = [reports EXCEPT ![wjob[w]] = Append(@, kind)]
    /\ wpc' = [wpc EXCEPT ![w] = "ran"]
    /\ UNCHANGED <<variant, soloVars, timeVars, tokioVars, size, inputVars, sigint, events, pc_main, i, cur_line,
                   wjob, active_count, completion_lock, submitted, received,
                   runs, panicked>>

\* worker: the job body panics; the thread unwinds out of its loop and ends.
JobPanic(w) ==
    /\ PoolAlive
    /\ wpc[w] = "run"
    /\ panicked' = panicked \cup {wjob[w]}
    /\ wpc' = [wpc EXCEPT ![w] = "dead"]
    /\ UNCHANGED <<variant, soloVars, timeVars, tokioVars, size, inputVars, sigint, events, pc_main, i, cur_line,
                   wjob, active_count, completion_lock, submitted, received,
                   runs, reports>>

\* A worker that would take two off the counter for one job.
WorkerDecrTwo(w) ==
    /\ PoolAlive
    /\ wpc[w] = "ran"
    /\ active_count' = active_count - 2
    /\ wpc' = [wpc EXCEPT ![w] = IF active_count = 1 THEN "notify" ELSE "recv"]
    /\ wjob' = [wjob EXCEPT ![w] = NoJob]
    /\ UNCHANGED <<variant, soloVars, timeVars, tokioVars, size, inputVars, sigint, events, pc_main, i, cur_line,
                   completion_lock, submitted, received, runs, reports, panicked>>

\* worker: active_count.fetch_sub(1); the one that saw 1 goes on to notify.
WorkerDecr(w) ==
    /\ PoolAlive
    /\ wpc[w] = "ran"
    /\ active_count' = active_count - 1
    /\ wpc' = [wpc EXCEPT ![w] = IF active_count = 1 THEN "notify" ELSE "recv"]
    /\ wjob' = [wjob EXCEPT ![w] = NoJob]
    /\ UNCHANGED <<variant, soloVars, timeVars, tokioVars, size, inputVars, sigint, events, pc_main, i, cur_line,
                   completion_lock, submitted, received, runs, reports, panicked>>

\* A notification sent while the waiter is not yet parked would wake nobody;
\* this one wakes nobody at all.
WorkerNotifyLost(w) ==
    /\ PoolAlive
    /\ wpc[w] = "notify"
    /\ completion_lock = "free"
    /\ wpc' = [wpc EXCEPT ![w] = "recv"]
    /\ UNCHANGED <<variant, soloVars, timeVars, tokioVars, size, inputVars, sigint, events, pc_main, i, cur_line, wjob,
                   active_count, completion_lock, submitted, received, runs,
                   reports, panicked>>

\* worker: lock, cvar.notify_all(), drop(guard), back to rx.recv().
WorkerNotify(w) ==
    /\ PoolAlive
    /\ wpc[w] = "notify"
    /\ completion_lock = "free"
    /\ pc_main' = IF pc_main = "wait_blocked" THEN "wait_wake" ELSE pc_main
    /\ wpc' = [wpc EXCEPT ![w] = "recv"]
    /\ UNCHANGED <<variant, soloVars, timeVars, tokioVars, size, inputVars, sigint, events, i, cur_line, wjob,
                   active_count, completion_lock, submitted, received, runs,
                   reports, panicked>>

\* wait_for_completion: lock.lock()
WaitLock ==
    /\ variant = "pool"
    /\ pc_main = "wait_lock"
    /\ completion_lock = "free"
    /\ completion_lock' = "main"
    /\ pc_main' = "wait_check"
    /\ UNCHANGED <<variant, soloVars, timeVars, tokioVars, size, inputVars, sigint, events, i, cur_line, wpc, wjob,
                   active_count, submitted, received, runs, reports, panicked>>

\* A loop test that is off by one.
WaitCheckOffByOne ==
    /\ variant = "pool"
    /\ pc_main = "wait_check"
    /\ pc_main' = IF active_count > 1 THEN "wait_blocked" ELSE "returned"
    /\ completion_lock' = "free"
    /\ UNCHANGED <<variant, soloVars, timeVars, tokioVars, size, inputVars, sigint, events, i, cur_line, wpc, wjob,
                   active_count, submitted, received, runs, reports, panicked>>

\* wait_for_completion: the while test, under the lock. A positive counter
\* enters cvar.wait (which releases the lock and blocks); zero leaves the
\* loop, the guard is dropped and the function returns.
WaitCheck ==
    /\ variant = "pool"
    /\ pc_main = "wait_check"
    /\ pc_main' = IF active_count > 0 THEN "wait_blocked" ELSE "returned"
    /\ completion_lock' = "free"
    /\ UNCHANGED <<variant, soloVars, timeVars, tokioVars, size, inputVars, sigint, events, i, cur_line, wpc, wjob,
                   active_count, submitted, received, runs, reports, panicked>>

\* cvar.wait may wake without a notification.
WaitSpurious ==
    /\ variant = "pool"
    /\ pc_main = "wait_blocked"
    /\ pc_main' = "wait_wake"
    /\ UNCHANGED <<variant, soloVars, timeVars, tokioVars, size, inputVars, sigint, events, i, cur_line, wpc, wjob,
                   active_count, completion_lock, submitted, received, runs,
                   reports, panicked>>

\* cvar.wait re-acquires the lock before it returns to the while test.
WaitReacquire ==
    /\ variant = "pool"
    /\ pc_main = "wait_wake"
    /\ completion_lock = "free"
    /\ completion_lock' = "main"
    /\ pc_main' = "wait_check"
    /\ UNCHANGED <<variant, soloVars, timeVars, tokioVars, size, inputVars, sigint, events, i, cur_line, wpc, wjob,
                   active_count, submitted, received, runs, reports, panicked>>

\* main prints "All tasks completed" and returns Ok(()): the process exits and
\* every other thread ends with it.
MainExit ==
    /\ variant = "pool"
    /\ pc_main = "returned"
    /\ pc_main' = "done"
    /\ UNCHANGED <<variant, soloVars, timeVars, tokioVars, size, inputVars, sigint, events, i, cur_line, wpc, wjob,
                   active_count, completion_lock, submitted, received, runs,
                   reports, panicked>>

\* Every step of the thread-pool variant.
NextPool ==
    \/ PoolReaderLine
    \/ PoolReaderEOF
    \/ PoolReaderErr
    \/ PoolSigInt
    \/ MainRecvLine
    \/ MainRecvInterrupt
    \/ MainRecvEOF
    \/ \E w \in Workers : Execute(w)
    \/ ExecuteDisconnected
    \/ \E w \in Workers : WorkerIncr(w)
    \/ \E w \in Workers : JobReturn(w)
    \/ \E w \in Workers : JobPanic(w)
    \/ \E w \in Workers : WorkerDecr(w)
    \/ \E w \in Workers : WorkerNotify(w)
    \/ WaitLock
    \/ WaitCheck
    \/ WaitSpurious
    \/ WaitReacquire
    \/ MainExit

(***************************************************************************)
(* Thread-pool variant on jobs that sleep: the closure of the ordering     *)
(* tests sleeps for the duration its input line names, then reports.       *)
(***************************************************************************)

\* worker: active_count.fetch_add(1) and entry into job(); the sleep starts.
TimedIncr(w) ==
    /\ PoolAlive
    /\ wpc[w] = "got"
    /\ active_count' = active_count + 1
    /\ runs' = [runs EXCEPT ![wjob[w]] = @ + 1]
    /\ start' = [start EXCEPT ![wjob[w]] = now]
    /\ wpc' = [wpc EXCEPT ![w] = "run"]
    /\ UNCHANGED <<variant, soloVars, tokioVars, size, inputVars, sigint, events, pc_main, i, cur_line,
                   wjob, completion_lock, submitted, received, reports, panicked,
                   dur, now, order>>

\* A body that reports without sleeping its duration out.
TimedReturnEarly(w) ==
    /\ PoolAlive
    /\ wpc[w] = "run"
    /\ reports' = [reports EXCEPT ![wjob[w]] = Append(@, "ok")]
    /\ order' = Append(order, wjob[w])
    /\ wpc' = [wpc EXCEPT ![w] = "ran"]
    /\ UNCHANGED <<variant, soloVars, tokioVars, size, inputVars, sigint, events, pc_main, i, cur_line,
                   wjob, active_count, completion_lock, submitted, received,
                   runs, panicked, dur, now, start>>

\* worker: the sleep of the body is over; the job prints its report line.
TimedReturn(w) ==
    /\ PoolAlive
    /\ wpc[w] = "run"
    /\ now = start[wjob[w]] + dur[wjob[w]]
    /\ reports' = [reports EXCEPT ![wjob[w]] = Append(@, "ok")]
    /\ order' = Append(order, wjob[w])
    /\ wpc' = [wpc EXCEPT ![w] = "ran"]
    /\ UNCHANGED <<variant, soloVars, tokioVars, size, inputVars, sigint, events, pc_main, i, cur_line,
                   wjob, active_count, completion_lock, submitted, received,
                   runs, panicked, dur, now, start>>

\* Time passes by one unit. A body whose sleep is over reports before the
\* clock moves on; every other step may be delayed for any time.
Tick ==
    /\ PoolAlive
    /\ now < MaxTime
    /\ \A w \in Workers :
          wpc[w] = "run" => now < start[wjob[w]] + dur[wjob[w]]
    /\ now' = now + 1
    /\ UNCHANGED <<variant, soloVars, tokioVars, inputVars, sigint, outVars, poolVars,
                   dur, start, order>>

\* Every step of the thread-pool variant on sleeping jobs that all succeed,
\* with no signal and no read error.
NextTimed ==
    \/ PoolReaderLine
    \/ PoolReaderEOF
    \/ MainRecvLine
    \/ MainRecvEOF
    \/ \E w \in Workers : Execute(w)
    \/ \E w \in Workers : TimedIncr(w)
    \/ \E w \in Workers : TimedReturn(w)
    \/ Tick
    \/ \E w \in Workers : WorkerDecr(w)
    \/ \E w \in Workers : WorkerNotify(w)
    \/ WaitLock
    \/ WaitCheck
    \/ WaitSpurious
    \/ WaitReacquire
    \/ MainExit

(***************************************************************************)
(* Registry+kill (tokio) variant                                           *)
(***************************************************************************)

\* The channels, the handler, the job table and the counters before the
\* event loop starts; t is the state of the main task.
TokioStart(t) ==
    /\ line_chan = <<>>
    /\ rx_open = TRUE
    /\ shutdown_chan = 0
    /\ interrupt = FALSE
    /\ hpc = "idle"
    /\ job_ids = {}
    /\ first_error = NoError
    /\ jobs_lock = "free"
    /\ jobs_table = {}
    /\ job_number = 0
    /\ active_jobs = 0
    /\ tpc = t
    /\ jpc = [j \in JobIds |-> "none"]
    /\ child = [j \in JobIds |-> "none"]
    /\ killed = {}
    /\ at_interrupt = {}
    /\ collected = {}
    /\ visits = <<>>

\* The process is alive until main returns.
TokioAlive == variant = "tokio" /\ tpc # "done"

\* Jobs whose process_job call has been spawned and whose body has not ended.
BodyPending == {j \in JobIds : jpc[j] \in {"spawned", "eval", "blocked"}}

\* stdin reader thread: line_tx.blocking_send(line); a closed channel ends it.
TokioReaderLine ==
    /\ TokioAlive
    /\ reader_pc = "read"
    /\ next_line <= nlines
    /\ Len(line_chan) < LineChanCap
    /\ next_line' = next_line + 1
    /\ IF rx_open
          THEN line_chan' = Append(line_chan, next_line) /\ UNCHANGED reader_pc
          ELSE reader_pc' = "done" /\ UNCHANGED line_chan
    /\ UNCHANGED <<variant, soloVars, timeVars, poolVars, sweepVars, nlines, read_error, sigint, outVars,
                   rx_open, shutdown_chan, interrupt, hpc, job_ids, first_error,
                   jobs_lock, jobs_table, job_number, active_jobs, tpc, jpc,
                   child, killed, at_interrupt>>

\* stdin reader thread: end of input or a read error ends the thread, which
\* drops line_tx and so closes the line channel.
TokioReaderEnd ==
    /\ TokioAlive
    /\ reader_pc = "read"
    /\ reader_pc' = "done"
    /\ read_error' = (next_line <= nlines)
    /\ UNCHANGED <<variant, soloVars, timeVars, poolVars, nlines, next_line, sigint, outVars,
                   tokioVars>>

\* A handler that would sweep before it sets the flag.
SigIntNoFlag ==
    /\ TokioAlive
    /\ hpc = "idle"
    /\ sigint < MaxInterrupts
    /\ sigint' = sigint + 1
    /\ at_interrupt' = at_interrupt \cup BodyPending
    /\ hpc' = "lock"
    /\ UNCHANGED <<variant, soloVars, timeVars, poolVars, sweepVars, inputVars, outVars, line_chan, rx_open,
                   shutdown_chan, interrupt, job_ids, first_error, jobs_lock,
                   jobs_table, job_number, active_jobs, tpc, jpc, child,
                   killed>>

\* The interrupt signal is delivered: the ctrlc handler starts and stores true
\* into the interrupt flag.
SigInt ==
    /\ TokioAlive
    /\ hpc = "idle"
    /\ sigint < MaxInterrupts
    /\ sigint' = sigint + 1
    /\ at_interrupt' = at_interrupt \cup BodyPending
    /\ interrupt' = TRUE
    /\ hpc' = "lock"
    /\ UNCHANGED <<variant, soloVars, timeVars, poolVars, sweepVars, inputVars, outVars, line_chan, rx_open,
                   shutdown_chan, job_ids, first_error, jobs_lock, jobs_table,
                   job_number, active_jobs, tpc, jpc, child, killed>>

\* The interrupt signal is delivered once more (a further press while the
\* shutdown is in progress): the handler runs again from its start.
SigIntAgain ==
    /\ TokioAlive
    /\ hpc = "idle"
    /\ sigint >= MaxInterrupts
    /\ sigint < MaxInterrupts + MaxRepeats
    /\ sigint' = sigint + 1
    /\ at_interrupt' = at_interrupt \cup BodyPending
    /\ interrupt' = TRUE
    /\ hpc' = "lock"
    /\ UNCHANGED <<variant, soloVars, timeVars, poolVars, sweepVars, inputVars, outVars, line_chan, rx_open,
                   shutdown_chan, job_ids, first_error, jobs_lock, jobs_table,
                   job_number, active_jobs, tpc, jpc, child, killed>>

\* handler: engine_state.jobs.lock() and the collection of the job ids.
HandlerLock ==
    /\ TokioAlive
    /\ hpc = "lock"
    /\ jobs_lock = "free"
    /\ jobs_lock' = "handler"
    /\ job_ids' = jobs_table
    /\ first_error' = NoError
    /\ hpc' = "sweep"
    /\ collected' = jobs_table
    /\ visits' = <<>>
    /\ UNCHANGED <<variant, soloVars, timeVars, poolVars, inputVars, sigint, outVars, line_chan,
                   rx_open, shutdown_chan, interrupt, jobs_table, job_number,
                   active_jobs, tpc, jpc, child, killed, at_interrupt>>

\* The result of ThreadJob::kill on job j: the kill of a process that has
\* already exited fails.
KillResult(j) == IF child[j] = "exited" THEN KillError(j) ELSE NoError

\* A sweep that only removes the entry.
HandlerKillRemoveOnly(j) ==
    /\ TokioAlive
    /\ hpc = "sweep"
    /\ j \in job_ids
    /\ job_ids' = job_ids \ {j}
    /\ jobs_table' = jobs_table \ {j}
    /\ killed' = IF jpc[j] \in {"eval", "blocked", "remove"} THEN killed \cup {j} ELSE killed
    /\ visits' = Append(visits, [id |-> j, res |-> NoError])
    /\ UNCHANGED collected
    /\ UNCHANGED <<variant, soloVars, timeVars, poolVars, inputVars, sigint, outVars, line_chan,
                   rx_open, shutdown_chan, interrupt, hpc, jobs_lock, first_error,
                   job_number, active_jobs, tpc, jpc, child, at_interrupt>>

\* A sweep that keeps the last error instead of the first.
HandlerKillLastError(j) ==
    /\ TokioAlive
    /\ hpc = "sweep"
    /\ j \in job_ids
    /\ job_ids' = job_ids \ {j}
    /\ child' = [child EXCEPT ![j] = IF @ = "alive" THEN "killed" ELSE @]
    /\ jpc' = [jpc EXCEPT ![j] = IF @ = "blocked" THEN "eval" ELSE @]
    /\ jobs_table' = jobs_table \ {j}
    /\ killed' = IF jpc[j] \in {"eval", "blocked", "remove"} THEN killed \cup {j} ELSE killed
    /\ first_error' = IF KillResult(j) # NoError THEN KillResult(j) ELSE first_error
    /\ visits' = Append(visits, [id |-> j, res |-> KillResult(j)])
    /\ UNCHANGED collected
    /\ UNCHANGED <<variant, soloVars, timeVars, poolVars, inputVars, sigint, outVars, line_chan,
                   rx_open, shutdown_chan, interrupt, hpc, jobs_lock,
                   job_number, active_jobs, tpc, at_interrupt>>

\* handler: jobs_guard.kill_and_remove(id) for one collected id: the job's
\* external process is killed (its blocked wait then returns), the entry is
\* removed, and the first error is kept.
HandlerKill(j) ==
    /\ TokioAlive
    /\ hpc = "sweep"
    /\ j \in job_ids
    /\ job_ids' = job_ids \ {j}
    /\ child' = [child EXCEPT ![j] = IF @ = "alive" THEN "killed" ELSE @]
    /\ jpc' = [jpc EXCEPT ![j] = IF @ = "blocked" THEN "eval" ELSE @]
    /\ jobs_table' = jobs_table \ {j}
    /\ killed' = IF jpc[j] \in {"eval", "blocked", "remove"} THEN killed \cup {j} ELSE killed
    /\ first_error' = IF first_error = NoError THEN KillResult(j) ELSE first_error
    /\ visits' = Append(visits, [id |-> j, res |-> KillResult(j)])
    /\ UNCHANGED collected
    /\ UNCHANGED <<variant, soloVars, timeVars, poolVars, inputVars, sigint, outVars, line_chan,
                   rx_open, shutdown_chan, interrupt, hpc, jobs_lock,
                   job_number, active_jobs, tpc, at_interrupt>>

\* A handler that may leave the sweep before it has visited every id.
HandlerUnlockEarly ==
    /\ TokioAlive
    /\ hpc = "sweep"
    /\ jobs_lock' = "free"
    /\ hpc' = "send"
    /\ UNCHANGED <<variant, soloVars, timeVars, poolVars, sweepVars, inputVars, sigint, outVars, line_chan,
                   rx_open, shutdown_chan, interrupt, job_ids, first_error,
                   jobs_table, job_number, active_jobs, tpc, jpc, child,
                   killed, at_interrupt>>

\* handler: the sweep is over and the guard is dropped.
HandlerUnlock ==
    /\ TokioAlive
    /\ hpc = "sweep"
    /\ job_ids = {}
    /\ jobs_lock' = "free"
    /\ hpc' = "send"
    /\ UNCHANGED <<variant, soloVars, timeVars, poolVars, sweepVars, inputVars, sigint, outVars, line_chan,
                   rx_open, shutdown_chan, interrupt, job_ids, first_error,
                   jobs_table, job_number, active_jobs, tpc, jpc, child,
                   killed, at_interrupt>>

\* A handler that ends without signalling the event loop.
HandlerSendDropped ==
    /\ TokioAlive
    /\ hpc = "send"
    /\ hpc' = "idle"
    /\ first_error' = NoError
    /\ collected' = {}
    /\ visits' = <<>>
    /\ UNCHANGED <<variant, soloVars, timeVars, poolVars, inputVars, sigint, outVars, line_chan,
                   rx_open, shutdown_chan, interrupt, job_ids,
                   jobs_lock, jobs_table, job_number, active_jobs, tpc, jpc,
                   child, killed, at_interrupt>>

\* A handler whose shutdown channel takes a message whenever it is open.
HandlerSendUnbounded ==
    /\ TokioAlive
    /\ hpc = "send"
    /\ shutdown_chan' = IF rx_open
                           THEN shutdown_chan + 1 ELSE shutdown_chan
    /\ hpc' = "idle"
    /\ first_error' = NoError
    /\ collected' = {}
    /\ visits' = <<>>
    /\ UNCHANGED <<variant, soloVars, timeVars, poolVars, inputVars, sigint, outVars, line_chan,
                   rx_open, interrupt, job_ids, jobs_lock,
                   jobs_table, job_number, active_jobs, tpc, jpc, child,
                   killed, at_interrupt>>

\* handler: shutdown_tx_clone.try_send(()), its error (full, closed) ignored;
\* the handler returns and its locals are gone.
HandlerSend ==
    /\ TokioAlive
    /\ hpc = "send"
    /\ shutdown_chan' = IF rx_open /\ shutdown_chan < ShutdownCap
                           THEN shutdown_chan + 1 ELSE shutdown_chan
    /\ hpc' = "idle"
    /\ first_error' = NoError
    /\ collected' = {}
    /\ visits' = <<>>
    /\ UNCHANGED <<variant, soloVars, timeVars, poolVars, inputVars, sigint, outVars, line_chan,
                   rx_open, interrupt, job_ids, jobs_lock,
                   jobs_table, job_number, active_jobs, tpc, jpc, child,
                   killed, at_interrupt>>

\* process_input_lines: the biased select finds a shutdown message and breaks;
\* the function returns and drops both receivers.
LoopShutdown ==
    /\ variant = "tokio"
    /\ tpc = "loop"
    /\ shutdown_chan > 0
    /\ shutdown_chan' = 0
    /\ line_chan' = <<>>
    /\ rx_open' = FALSE
    /\ tpc' = "wait"
    /\ UNCHANGED <<variant, soloVars, timeVars, poolVars, sweepVars, inputVars, sigint, outVars, interrupt, hpc,
                   job_ids, first_error, jobs_lock, jobs_table, job_number,
                   active_jobs, jpc, child, killed, at_interrupt>>

\* A select without the bias: the line branch may win while a shutdown
\* message is pending.
LoopLineUnbiased ==
    /\ variant = "tokio"
    /\ tpc = "loop"
    /\ line_chan # <<>>
    /\ job_number \in JobIds
    /\ line_chan' = Tail(line_chan)
    /\ active_jobs' = active_jobs + 1
    /\ submitted' = Append(submitted, [id |-> job_number, line |-> Head(line_chan)])
    /\ jpc' = [jpc EXCEPT ![job_number] = "spawned"]
    /\ job_number' = job_number + 1
    /\ UNCHANGED <<variant, soloVars, timeVars, poolVars, sweepVars, inputVars, sigint, reports, panicked,
                   rx_open, shutdown_chan, interrupt, hpc, job_ids, first_error,
                   jobs_lock, jobs_table, tpc, child, killed, at_interrupt>>

\* A loop that would spawn the task without advancing job_number.
LoopLineNoIncr ==
    /\ variant = "tokio"
    /\ tpc = "loop"
    /\ shutdown_chan = 0
    /\ line_chan # <<>>
    /\ job_number \in JobIds
    /\ line_chan' = Tail(line_chan)
    /\ active_jobs' = active_jobs + 1
    /\ submitted' = Append(submitted, [id |-> job_number, line |-> Head(line_chan)])
    /\ jpc' = [jpc EXCEPT ![job_number] = "spawned"]
    /\ UNCHANGED <<variant, soloVars, timeVars, poolVars, sweepVars, inputVars, sigint, reports, panicked,
                   rx_open, shutdown_chan, interrupt, hpc, job_ids, first_error,
                   jobs_lock, jobs_table, job_number, tpc, child, killed, at_interrupt>>

\* process_input_lines: no shutdown message is pending and a line is received:
\* active_jobs += 1, the job gets job_number, job_number += 1, the task is spawned.
LoopLine ==
    /\ variant = "tokio"
    /\ tpc = "loop"
    /\ shutdown_chan = 0
    /\ line_chan # <<>>
    /\ job_number \in JobIds
    /\ line_chan' = Tail(line_chan)
    /\ active_jobs' = active_jobs + 1
    /\ submitted' = Append(submitted, [id |-> job_number, line |-> Head(line_chan)])
    /\ jpc' = [jpc EXCEPT ![job_number] = "spawned"]
    /\ job_number' = job_number + 1
    /\ UNCHANGED <<variant, soloVars, timeVars, poolVars, sweepVars, inputVars, sigint, reports, panicked,
                   rx_open, shutdown_chan, interrupt, hpc, job_ids, first_error,
                   jobs_lock, jobs_table, tpc, child, killed, at_interrupt>>

\* process_input_lines: the line channel is closed and empty (recv gives None).
LoopClosed ==
    /\ variant = "tokio"
    /\ tpc = "loop"
    /\ shutdown_chan = 0
    /\ line_chan = <<>>
    /\ reader_pc = "done"
    /\ rx_open' = FALSE
    /\ tpc' = "wait"
    /\ UNCHANGED <<variant, soloVars, timeVars, poolVars, sweepVars, inputVars, sigint, outVars, line_chan,
                   shutdown_chan, interrupt, hpc, job_ids, first_error,
                   jobs_lock, jobs_table, job_number, active_jobs, jpc, child, killed, at_interrupt>>

\* main: the final wait loop reads active_jobs == 0 and main returns.
TokioMainExit ==
    /\ variant = "tokio"
    /\ tpc = "wait"
    /\ active_jobs = 0
    /\ tpc' = "done"
    /\ UNCHANGED <<variant, soloVars, timeVars, poolVars, sweepVars, inputVars, sigint, outVars, line_chan,
                   rx_open, shutdown_chan, interrupt, hpc, job_ids, first_error,
                   jobs_lock, jobs_table, job_number, active_jobs, jpc, child, killed, at_interrupt>>

\* A process_job that would keep the table lock while the body runs.
JobAddKeepLock(j) ==
    /\ TokioAlive
    /\ jpc[j] = "spawned"
    /\ jobs_lock = "free"
    /\ jobs_table' = jobs_table \cup {j}
    /\ jobs_lock' = "job"
    /\ jpc' = [jpc EXCEPT ![j] = "eval"]
    /\ UNCHANGED <<variant, soloVars, timeVars, poolVars, sweepVars, inputVars, sigint, outVars, line_chan,
                   rx_open, shutdown_chan, interrupt, hpc, job_ids, first_error,
                   job_number, active_jobs, tpc, child, killed,
                   at_interrupt>>

\* process_job: the blocking task starts and adds its entry to the job table.
JobAdd(j) ==
    /\ TokioAlive
    /\ jpc[j] = "spawned"
    /\ jobs_lock = "free"
    /\ jobs_table' = jobs_table \cup {j}
    /\ jpc' = [jpc EXCEPT ![j] = "eval"]
    /\ UNCHANGED <<variant, soloVars, timeVars, poolVars, sweepVars, inputVars, sigint, outVars, line_chan,
                   rx_open, shutdown_chan, interrupt, hpc, job_ids, first_error,
                   jobs_lock, job_number, active_jobs, tpc, child, killed,
                   at_interrupt>>

\* executor: eval_closure returns Ok or Err of its own accord and process_job
\* prints the one report line of the job.
ExecReturn(j) ==
    /\ TokioAlive
    /\ jpc[j] = "eval"
    /\ \E kind \in {"ok", "err"} :
          reports' = [reports EXCEPT ![j] = Append(@, kind)]
    /\ jpc' = [jpc EXCEPT ![j] = "remove"]
    /\ at_interrupt' = at_interrupt \ {j}
    /\ UNCHANGED <<variant, soloVars, timeVars, poolVars, sweepVars, inputVars, sigint, submitted, panicked,
                   line_chan, rx_open, shutdown_chan, interrupt, hpc, job_ids,
                   first_error, jobs_lock, jobs_table, job_number, active_jobs,
                   tpc, child, killed>>

\* executor: a cooperative check sees the interrupt flag; eval_closure unwinds
\* with an error, which process_job reports.
ExecInterrupted(j) ==
    /\ TokioAlive
    /\ jpc[j] = "eval"
    /\ interrupt
    /\ reports' = [reports EXCEPT ![j] = Append(@, "err")]
    /\ jpc' = [jpc EXCEPT ![j] = "remove"]
    /\ at_interrupt' = at_interrupt \ {j}
    /\ UNCHANGED <<variant, soloVars, timeVars, poolVars, sweepVars, inputVars, sigint, submitted, panicked,
                   line_chan, rx_open, shutdown_chan, interrupt, hpc, job_ids,
                   first_error, jobs_lock, jobs_table, job_number, active_jobs,
                   tpc, child, killed>>

\* executor: the job body panics; process_job unwinds past its remove_job and
\* the task gets a JoinError.
ExecPanic(j) ==
    /\ TokioAlive
    /\ jpc[j] = "eval"
    /\ panicked' = panicked \cup {j}
    /\ jpc' = [jpc EXCEPT ![j] = "finished"]
    /\ at_interrupt' = at_interrupt \ {j}
    /\ killed' = killed \ {j}
    /\ UNCHANGED <<variant, soloVars, timeVars, poolVars, sweepVars, inputVars, sigint, submitted, reports,
                   line_chan, rx_open, shutdown_chan, interrupt, hpc, job_ids,
                   first_error, jobs_lock, jobs_table, job_number, active_jobs,
                   tpc, child>>

\* executor: the job starts an external process, registers it with its job
\* (refused once the job's signal is set) and waits for it.
ExecSpawn(j) ==
    /\ TokioAlive
    /\ jpc[j] = "eval"
    /\ ~interrupt
    /\ child[j] = "none"
    /\ child' = [child EXCEPT ![j] = "alive"]
    /\ jpc' = [jpc EXCEPT ![j] = "blocked"]
    /\ UNCHANGED <<variant, soloVars, timeVars, poolVars, sweepVars, inputVars, sigint, outVars, line_chan,
                   rx_open, shutdown_chan, interrupt, hpc, job_ids, first_error,
                   jobs_lock, jobs_table, job_number, active_jobs, tpc, killed, at_interrupt>>

\* The external process of job j exits by itself; the job's wait returns.
ChildExit(j) ==
    /\ TokioAlive
    /\ jpc[j] = "blocked"
    /\ child[j] = "alive"
    /\ child' = [child EXCEPT ![j] = "exited"]
    /\ jpc' = [jpc EXCEPT ![j] = "eval"]
    /\ UNCHANGED <<variant, soloVars, timeVars, poolVars, sweepVars, inputVars, sigint, outVars, line_chan,
                   rx_open, shutdown_chan, interrupt, hpc, job_ids, first_error,
                   jobs_lock, jobs_table, job_number, active_jobs, tpc, killed, at_interrupt>>

\* A remove_job section that would return with the table lock still held.
JobRemoveKeepLock(j) ==
    /\ TokioAlive
    /\ jpc[j] = "remove"
    /\ jobs_lock = "free"
    /\ jobs_lock' = "job"
    /\ jobs_table' = jobs_table \ {j}
    /\ jpc' = [jpc EXCEPT ![j] = "finished"]
    /\ child' = [child EXCEPT ![j] = "none"]
    /\ killed' = killed \ {j}
    /\ UNCHANGED <<variant, soloVars, timeVars, poolVars, sweepVars, inputVars, sigint, outVars, line_chan,
                   rx_open, shutdown_chan, interrupt, hpc, job_ids, first_error,
                   job_number, active_jobs, tpc, at_interrupt>>

\* A remove_job that would panic on an id that is no longer in the table.
JobRemoveStrict(j) ==
    /\ TokioAlive
    /\ jpc[j] = "remove"
    /\ jobs_lock = "free"
    /\ panicked' = IF j \in jobs_table THEN panicked ELSE panicked \cup {j}
    /\ jobs_table' = jobs_table \ {j}
    /\ jpc' = [jpc EXCEPT ![j] = "finished"]
    /\ child' = [child EXCEPT ![j] = "none"]
    /\ killed' = killed \ {j}
    /\ UNCHANGED <<variant, soloVars, timeVars, poolVars, sweepVars, inputVars, sigint, submitted, reports, line_chan,
                   rx_open, shutdown_chan, interrupt, hpc, job_ids, first_error,
                   jobs_lock, job_number, active_jobs, tpc, at_interrupt>>

\* process_job: remove_job(job_id) under the lock, then return; the job's
\* ThreadJob and the processes registered with it are dropped.
JobRemove(j) ==
    /\ TokioAlive
    /\ jpc[j] = "remove"
    /\ jobs_lock = "free"
    /\ jobs_table' = jobs_table \ {j}
    /\ jpc' = [jpc EXCEPT ![j] = "finished"]
    /\ child' = [child EXCEPT ![j] = "none"]
    /\ killed' = killed \ {j}
    /\ UNCHANGED <<variant, soloVars, timeVars, poolVars, sweepVars, inputVars, sigint, outVars, line_chan,
                   rx_open, shutdown_chan, interrupt, hpc, job_ids, first_error,
                   jobs_lock, job_number, active_jobs, tpc, at_interrupt>>

\* A task that would return on a JoinError without touching the counter.
TaskDoneSkipPanic(j) ==
    /\ TokioAlive
    /\ jpc[j] = "finished"
    /\ active_jobs' = IF j \in panicked THEN active_jobs ELSE active_jobs - 1
    /\ jpc' = [jpc EXCEPT ![j] = "done"]
    /\ UNCHANGED <<variant, soloVars, timeVars, poolVars, sweepVars, inputVars, sigint, outVars, line_chan,
                   rx_open, shutdown_chan, interrupt, hpc, job_ids, first_error,
                   jobs_lock, jobs_table, job_number, tpc, child, killed,
                   at_interrupt>>

\* the spawned task: the await of the blocking task is over (Ok or JoinError);
\* active_jobs -= 1.
TaskDone(j) ==
    /\ TokioAlive
    /\ jpc[j] = "finished"
    /\ active_jobs' = active_jobs - 1
    /\ jpc' = [jpc EXCEPT ![j] = "done"]
    /\ UNCHANGED <<variant, soloVars, timeVars, poolVars, sweepVars, inputVars, sigint, outVars, line_chan,
                   rx_open, shutdown_chan, interrupt, hpc, job_ids, first_error,
                   jobs_lock, jobs_table, job_number, tpc, child, killed,
                   at_interrupt>>

\* Every step of the registry+kill variant.
NextTokio ==
    \/ TokioReaderLine
    \/ TokioReaderEnd
    \/ SigInt
    \/ HandlerLock
    \/ \E j \in JobIds : HandlerKill(j)
    \/ HandlerUnlock
    \/ HandlerSend
    \/ LoopShutdown
    \/ LoopLine
    \/ LoopClosed
    \/ TokioMainExit
    \/ \E j \in JobIds : JobAdd(j)
    \/ \E j \in JobIds : ExecReturn(j)
    \/ \E j \in JobIds : ExecInterrupted(j)
    \/ \E j \in JobIds : ExecPanic(j)
    \/ \E j \in JobIds : ExecSpawn(j)
    \/ \E j \in JobIds : ChildExit(j)
    \/ \E j \in JobIds : JobRemove(j)
    \/ \E j \in JobIds : TaskDone(j)

\* process_job: the thread panics inside the critical section in which it adds
\* its entry: the guard is dropped during unwinding and poisons the mutex; the
\* task gets a JoinError.
JobAddPanic(j) ==
    /\ TokioAlive
    /\ jpc[j] = "spawned"
    /\ jobs_lock = "free"
    /\ jobs_lock' = "poisoned"
    /\ panicked' = panicked \cup {j}
    /\ jpc' = [jpc EXCEPT ![j] = "finished"]
    /\ UNCHANGED <<variant, soloVars, timeVars, poolVars, sweepVars, inputVars, sigint, submitted, reports,
                   line_chan, rx_open, shutdown_chan, interrupt, hpc, job_ids,
                   first_error, jobs_table, job_number, active_jobs, tpc, child,
                   killed, at_interrupt>>

\* process_job: engine_state.jobs.lock().unwrap() on the poisoned mutex panics
\* before the entry is added.
JobAddPoisoned(j) ==
    /\ TokioAlive
    /\ jpc[j] = "spawned"
    /\ jobs_lock = "poisoned"
    /\ panicked' = panicked \cup {j}
    /\ jpc' = [jpc EXCEPT ![j] = "finished"]
    /\ at_interrupt' = at_interrupt \ {j}
    /\ UNCHANGED <<variant, soloVars, timeVars, poolVars, sweepVars, inputVars, sigint, submitted, reports,
                   line_chan, rx_open, shutdown_chan, interrupt, hpc, job_ids,
                   first_error, jobs_lock, jobs_table, job_number, active_jobs,
                   tpc, child, killed>>

\* process_job: the lock().unwrap() before remove_job panics on the poisoned
\* mutex; the entry stays in the table.
JobRemovePoisoned(j) ==
    /\ TokioAlive
    /\ jpc[j] = "remove"
    /\ jobs_lock = "poisoned"
    /\ panicked' = panicked \cup {j}
    /\ jpc' = [jpc EXCEPT ![j] = "finished"]
    /\ killed' = killed \ {j}
    /\ UNCHANGED <<variant, soloVars, timeVars, poolVars, sweepVars, inputVars, sigint, submitted, reports,
                   line_chan, rx_open, shutdown_chan, interrupt, hpc, job_ids,
                   first_error, jobs_lock, jobs_table, job_number, active_jobs,
                   tpc, child, at_interrupt>>

\* handler: engine_state.jobs.lock() gives Err(poisoned): the sweep is skipped,
\* its result is the "Jobs mutex poisoned" error, and the handler goes on to
\* the shutdown signal.
HandlerLockPoisoned ==
    /\ TokioAlive
    /\ hpc = "lock"
    /\ jobs_lock = "poisoned"
    /\ first_error' = PoisonError
    /\ hpc' = "send"
    /\ collected' = {}
    /\ visits' = <<>>
    /\ UNCHANGED <<variant, soloVars, timeVars, poolVars, inputVars, sigint, outVars, line_chan,
                   rx_open, shutdown_chan, interrupt, job_ids, jobs_lock,
                   jobs_table, job_number, active_jobs, tpc, jpc, child, killed,
                   at_interrupt>>

\* Every step of the registry+kill variant when a thread may panic while it
\* holds the job-table lock.
NextPoison ==
    \/ NextTokio
    \/ \E j \in JobIds : JobAddPanic(j)
    \/ \E j \in JobIds : JobAddPoisoned(j)
    \/ \E j \in JobIds : JobRemovePoisoned(j)
    \/ HandlerLockPoisoned

\* Every step of the registry+kill variant when the signal may be repeated.
NextRepeat ==
    \/ NextTokio
    \/ SigIntAgain

(***************************************************************************)
(* Single-job background variant: src/p2-background/src/main.rs and        *)
(* src/background/src/main.rs. One script runs in a spawned thread with a  *)
(* job-table entry; main polls for its end and for the interrupt flag.     *)
(***************************************************************************)

\* The variables of the multi-job coordinators.
jobVars == <<inputVars, sigint, outVars, poolVars, tokioVars, timeVars>>

\* What a script can do: fail at merge_delta, give a value, fail in the
\* evaluation, fail in the conversion of the result, wait for an external
\* command, never end.
Snippets == {"merge_err", "value", "eval_err", "conv_err", "external", "stall"}

\* The process is alive until main has returned.
BgAlive == variant = "bg" /\ bg_main # "exited"

\* ctrlc handler: interrupt.store(true).
BgSigInt ==
    /\ BgAlive
    /\ bg_interrupt' = TRUE
    /\ UNCHANGED <<variant, jobVars, sbVars, code_snippet, bg_main, background_thread, bg_table,
                   bg_child, kill_calls, exit_path, bg_out>>

\* thread: parse succeeds and merge_delta returns Ok; go on to evaluate.
BgParseOk ==
    /\ BgAlive
    /\ background_thread = "parse"
    /\ code_snippet # "merge_err"
    /\ background_thread' = "eval"
    /\ UNCHANGED <<variant, jobVars, sbVars, code_snippet, bg_main, bg_interrupt, bg_table,
                   bg_child, kill_calls, exit_path, bg_out>>

\* thread: merge_delta returns Err: the error is printed and the closure
\* returns at once.
BgParseErr ==
    /\ BgAlive
    /\ background_thread = "parse"
    /\ code_snippet = "merge_err"
    /\ bg_out' = Append(bg_out, "err")
    /\ background_thread' = "finished"
    /\ UNCHANGED <<variant, jobVars, sbVars, code_snippet, bg_main, bg_interrupt, bg_table,
                   bg_child, kill_calls, exit_path>>

\* thread: the evaluation starts an external command, which is registered
\* with the job, and waits for it.
BgEvalSpawn ==
    /\ BgAlive
    /\ background_thread = "eval"
    /\ code_snippet = "external"
    /\ bg_child = "none"
    /\ bg_child' = "alive"
    /\ background_thread' = "blocked"
    /\ UNCHANGED <<variant, jobVars, sbVars, code_snippet, bg_main, bg_interrupt, bg_table,
                   kill_calls, exit_path, bg_out>>

\* The external process ends by itself.
BgChildExit ==
    /\ variant = "bg"
    /\ bg_child = "alive"
    /\ bg_child' = "exited"
    /\ UNCHANGED <<variant, jobVars, sbVars, code_snippet, bg_main, background_thread, bg_interrupt,
                   bg_table, kill_calls, exit_path, bg_out>>

\* thread: the wait for the external process returns.
BgChildWaited ==
    /\ BgAlive
    /\ background_thread = "blocked"
    /\ bg_child \in {"exited", "killed"}
    /\ background_thread' = "eval"
    /\ UNCHANGED <<variant, jobVars, sbVars, code_snippet, bg_main, bg_interrupt, bg_table,
                   bg_child, kill_calls, exit_path, bg_out>>

\* thread: the evaluation and the conversion succeed; print_result.
BgEvalValue ==
    /\ BgAlive
    /\ background_thread = "eval"
    /\ \/ code_snippet = "value"
       \/ code_snippet = "external" /\ bg_child = "exited"
    /\ bg_out' = Append(bg_out, "ok")
    /\ background_thread' = "remove"
    /\ UNCHANGED <<variant, jobVars, sbVars, code_snippet, bg_main, bg_interrupt, bg_table,
                   bg_child, kill_calls, exit_path>>

\* thread: the evaluation returns Err (also an external command that was
\* killed).
BgEvalError ==
    /\ BgAlive
    /\ background_thread = "eval"
    /\ \/ code_snippet = "eval_err"
       \/ code_snippet = "external" /\ bg_child = "killed"
    /\ bg_out' = Append(bg_out, "err")
    /\ background_thread' = "remove"
    /\ UNCHANGED <<variant, jobVars, sbVars, code_snippet, bg_main, bg_interrupt, bg_table,
                   bg_child, kill_calls, exit_path>>

\* thread: into_value returns Err.
BgConvError ==
    /\ BgAlive
    /\ background_thread = "eval"
    /\ code_snippet = "conv_err"
    /\ bg_out' = Append(bg_out, "err")
    /\ background_thread' = "remove"
    /\ UNCHANGED <<variant, jobVars, sbVars, code_snippet, bg_main, bg_interrupt, bg_table,
                   bg_child, kill_calls, exit_path>>

\* thread: the evaluation sees the engine's interrupt flag and returns Err.
BgEvalInterrupted ==
    /\ BgAlive
    /\ background_thread = "eval"
    /\ bg_interrupt
    /\ bg_out' = Append(bg_out, "err")
    /\ background_thread' = "remove"
    /\ UNCHANGED <<variant, jobVars, sbVars, code_snippet, bg_main, bg_interrupt, bg_table,
                   bg_child, kill_calls, exit_path>>

\* thread: jobs.lock(), remove_job(job_id); the closure returns.
BgRemove ==
    /\ BgAlive
    /\ background_thread = "remove"
    /\ bg_table' = bg_table \ {0}
    /\ background_thread' = "finished"
    /\ UNCHANGED <<variant, jobVars, sbVars, code_snippet, bg_main, bg_interrupt, bg_child,
                   kill_calls, exit_path, bg_out>>

\* main: background_thread.is_finished(); true breaks out of the loop.
BgPollFinished ==
    /\ variant = "bg"
    /\ bg_main = "poll_finished"
    /\ IF background_thread = "finished"
          THEN bg_main' = "return" /\ exit_path' = "finished"
          ELSE bg_main' = "poll_flag" /\ UNCHANGED exit_path
    /\ UNCHANGED <<variant, jobVars, sbVars, code_snippet, background_thread, bg_interrupt, bg_table,
                   bg_child, kill_calls, bg_out>>

\* A poll loop that would go on polling after the kill, until the thread has
\* finished.
BgPollFlagWait ==
    /\ variant = "bg"
    /\ bg_main = "poll_flag"
    /\ IF bg_interrupt
          THEN /\ bg_table' = bg_table \ {0}
               /\ bg_child' = IF bg_child = "alive" THEN "killed" ELSE bg_child
               /\ kill_calls' = kill_calls + 1
               /\ bg_main' = "poll_finished"
               /\ exit_path' = "interrupt"
          ELSE /\ bg_main' = "sleep"
               /\ UNCHANGED <<bg_table, bg_child, kill_calls, exit_path>>
    /\ UNCHANGED <<variant, jobVars, sbVars, code_snippet, background_thread, bg_interrupt, bg_out>>

\* main: interrupt.load(); when set: jobs.lock(), kill_and_remove(job_id)
\* (kills the job's external process, removes the entry), break; else sleep.
BgPollFlag ==
    /\ variant = "bg"
    /\ bg_main = "poll_flag"
    /\ IF bg_interrupt
          THEN /\ bg_table' = bg_table \ {0}
               /\ bg_child' = IF bg_child = "alive" THEN "killed" ELSE bg_child
               /\ kill_calls' = kill_calls + 1
               /\ bg_main' = "return"
               /\ exit_path' = "interrupt"
          ELSE /\ bg_main' = "sleep"
               /\ UNCHANGED <<bg_table, bg_child, kill_calls, exit_path>>
    /\ UNCHANGED <<variant, jobVars, sbVars, code_snippet, background_thread, bg_interrupt, bg_out>>

\* main: thread::sleep(poll_interval) ends; next iteration.
BgSleep ==
    /\ variant = "bg"
    /\ bg_main = "sleep"
    /\ bg_main' = "poll_finished"
    /\ UNCHANGED <<variant, jobVars, sbVars, code_snippet, background_thread, bg_interrupt, bg_table,
                   bg_child, kill_calls, exit_path, bg_out>>

\* main returns Ok(()): the process exits and the thread ends with it.
BgExit ==
    /\ variant = "bg"
    /\ bg_main = "return"
    /\ bg_main' = "exited"
    /\ UNCHANGED <<variant, jobVars, sbVars, code_snippet, background_thread, bg_interrupt, bg_table,
                   bg_child, kill_calls, exit_path, bg_out>>

\* Every step of the background variant.
NextBg ==
    \/ BgSigInt
    \/ BgParseOk
    \/ BgParseErr
    \/ BgEvalSpawn
    \/ BgChildExit
    \/ BgChildWaited
    \/ BgEvalValue
    \/ BgEvalError
    \/ BgConvError
    \/ BgEvalInterrupted
    \/ BgRemove
    \/ BgPollFinished
    \/ BgPollFlag
    \/ BgSleep
    \/ BgExit

(***************************************************************************)
(* Sandbox front end: src/p4-sandbox/src/main.rs. One script is parsed,    *)
(* checked and evaluated by the main thread.                               *)
(***************************************************************************)

\* The errors a parse can yield are told apart by a number.
ErrIds == 1..MaxErrors

\* The error lists a parse can leave in the working set.
ErrLists == UNION {[1..n -> ErrIds] : n \in 0..MaxErrors}

\* The error main returns: its title and the error it was made from.
SbError(e, m) == [error |-> e, msg |-> m]

\* parse_checked_block: the first parse error if there is one, else the first
\* compile error if there is one, else Ok.
parse_checked_block(sc) ==
    IF sc.parse_errors # <<>>
        THEN SbError("Parse error", Head(sc.parse_errors))
    ELSE IF sc.compile_errors # <<>>
        THEN SbError("Compile error", Head(sc.compile_errors))
    ELSE NoSbError

\* main: std::env::args().nth(1) gives the script.
SbArgs ==
    /\ variant = "sandbox"
    /\ sb_pc = "args"
    /\ script.given
    /\ sb_pc' = "boot"
    /\ UNCHANGED <<variant, jobVars, bgVars, script, evals, sb_error, sb_out>>

\* main: no argument: expect() panics.
SbNoArg ==
    /\ variant = "sandbox"
    /\ sb_pc = "args"
    /\ ~script.given
    /\ sb_error' = SbError("panic", 0)
    /\ sb_pc' = "exited"
    /\ UNCHANGED <<variant, jobVars, bgVars, script, evals, sb_out>>

\* main: create_filters_only_engine() returns the engine.
SbBoot ==
    /\ variant = "sandbox"
    /\ sb_pc = "boot"
    /\ sb_pc' = "parse"
    /\ UNCHANGED <<variant, jobVars, bgVars, script, evals, sb_error, sb_out>>

\* main: create_filters_only_engine() returns Err (its merge_delta failed).
SbBootErr ==
    /\ variant = "sandbox"
    /\ sb_pc = "boot"
    /\ sb_error' = SbError("boot", 0)
    /\ sb_pc' = "exited"
    /\ UNCHANGED <<variant, jobVars, bgVars, script, evals, sb_out>>

\* A check that would look at the compile errors before the parse errors.
SbParseCompileFirst ==
    /\ variant = "sandbox"
    /\ sb_pc = "parse"
    /\ sb_error' = IF script.compile_errors # <<>>
                       THEN SbError("Compile error", Head(script.compile_errors))
                    ELSE IF script.parse_errors # <<>>
                       THEN SbError("Parse error", Head(script.parse_errors))
                    ELSE NoSbError
    /\ sb_pc' = IF sb_error' = NoSbError THEN "merge" ELSE "exited"
    /\ UNCHANGED <<variant, jobVars, bgVars, script, evals, sb_out>>

\* main: parse_checked_block(&engine, &script)?
SbParse ==
    /\ variant = "sandbox"
    /\ sb_pc = "parse"
    /\ sb_error' = parse_checked_block(script)
    /\ sb_pc' = IF sb_error' = NoSbError THEN "merge" ELSE "exited"
    /\ UNCHANGED <<variant, jobVars, bgVars, script, evals, sb_out>>

\* main: engine.merge_delta(working_set.render()) returns Ok.
SbMerge ==
    /\ variant = "sandbox"
    /\ sb_pc = "merge"
    /\ sb_pc' = "eval"
    /\ UNCHANGED <<variant, jobVars, bgVars, script, evals, sb_error, sb_out>>

\* main: engine.merge_delta(working_set.render()) returns Err.
SbMergeErr ==
    /\ variant = "sandbox"
    /\ sb_pc = "merge"
    /\ sb_error' = SbError("merge", 0)
    /\ sb_pc' = "exited"
    /\ UNCHANGED <<variant, jobVars, bgVars, script, evals, sb_out>>

\* main: eval_block_with_early_return returns Ok.
SbEval ==
    /\ variant = "sandbox"
    /\ sb_pc = "eval"
    /\ evals' = evals + 1
    /\ sb_pc' = "value"
    /\ UNCHANGED <<variant, jobVars, bgVars, script, sb_error, sb_out>>

\* main: eval_block_with_early_return returns Err.
SbEvalErr ==
    /\ variant = "sandbox"
    /\ sb_pc = "eval"
    /\ evals' = evals + 1
    /\ sb_error' = SbError("eval", 0)
    /\ sb_pc' = "exited"
    /\ UNCHANGED <<variant, jobVars, bgVars, script, sb_out>>

\* main: into_value returns Err.
SbValueErr ==
    /\ variant = "sandbox"
    /\ sb_pc = "value"
    /\ sb_error' = SbError("convert", 0)
    /\ sb_pc' = "exited"
    /\ UNCHANGED <<variant, jobVars, bgVars, script, evals, sb_out>>

\* main: into_value returns a value; print_result prints one line, or one
\* line for each element of a list; main returns Ok(()).
SbPrint ==
    /\ variant = "sandbox"
    /\ sb_pc = "value"
    /\ \E n \in 0..MaxList : sb_out' = sb_out \o ListLines(n)
    /\ sb_pc' = "exited"
    /\ UNCHANGED <<variant, jobVars, bgVars, script, evals, sb_error>>

\* Every step of the sandbox front end.
NextSb ==
    \/ SbArgs
    \/ SbNoArg
    \/ SbBoot
    \/ SbBootErr
    \/ SbParse
    \/ SbMerge
    \/ SbMergeErr
    \/ SbEval
    \/ SbEvalErr
    \/ SbValueErr
    \/ SbPrint

(***************************************************************************)
(* Specifications                                                          *)
(***************************************************************************)

InitPool ==
    /\ variant = "pool"
    /\ InitCommon
    /\ SoloAbsent
    /\ \E n \in 1..PoolSize : PoolStart(n, "recv")
    /\ TokioStart("absent")
    /\ TimeStart([j \in JobIds |-> 0])

\* The pool variant fed with lines that name distinct durations.
InitTimed ==
    /\ variant = "pool"
    /\ InitCommon
    /\ SoloAbsent
    /\ \E n \in 1..PoolSize : PoolStart(n, "recv")
    /\ TokioStart("absent")
    /\ \E d \in [JobIds -> 1..MaxDur] :
          /\ \A a, b \in JobIds : a # b => d[a] # d[b]
          /\ TimeStart(d)

InitTokio ==
    /\ variant = "tokio"
    /\ InitCommon
    /\ SoloAbsent
    /\ PoolStart(0, "absent")
    /\ TokioStart("loop")
    /\ TimeStart([j \in JobIds |-> 0])

\* The multi-job coordinators are absent: a single-script binary runs.
JobsAbsent ==
    /\ nlines = 0
    /\ next_line = 1
    /\ reader_pc = "done"
    /\ read_error = FALSE
    /\ sigint = 0
    /\ submitted = <<>>
    /\ reports = [j \in JobIds |-> <<>>]
    /\ panicked = {}
    /\ PoolStart(0, "absent")
    /\ TokioStart("absent")
    /\ TimeStart([j \in JobIds |-> 0])

InitBg ==
    /\ variant = "bg"
    /\ JobsAbsent
    /\ \E c \in Snippets : BgStart("poll_finished", c)
    /\ SbStart("absent", NoScript)

InitSb ==
    /\ variant = "sandbox"
    /\ JobsAbsent
    /\ BgStart("absent", "none")
    /\ \E sc \in {NoScript} \cup [given : {TRUE}, parse_errors : ErrLists,
                                   compile_errors : ErrLists] :
          SbStart("args", sc)

Init == InitPool \/ InitTokio

Next == NextPool \/ NextTokio

\* worker (pool variant): the closure returns a list; the job closure prints
\* one line for each element of the list.
JobReturnList(w) ==
    /\ PoolAlive
    /\ wpc[w] = "run"
    /\ \E n \in 0..MaxList :
          reports' = [reports EXCEPT ![wjob[w]] = @ \o ListLines(n)]
    /\ wpc' = [wpc EXCEPT ![w] = "ran"]
    /\ UNCHANGED <<variant, soloVars, timeVars, tokioVars, size, inputVars, sigint, events, pc_main, i, cur_line,
                   wjob, active_count, completion_lock, submitted, received,
                   runs, panicked>>

\* executor (tokio variant): eval_closure returns a list; process_job prints
\* one line for each element of the list.
ExecReturnList(j) ==
    /\ TokioAlive
    /\ jpc[j] = "eval"
    /\ \E n \in 0..MaxList :
          reports' = [reports EXCEPT ![j] = @ \o ListLines(n)]
    /\ jpc' = [jpc EXCEPT ![j] = "remove"]
    /\ at_interrupt' = at_interrupt \ {j}
    /\ UNCHANGED <<variant, soloVars, timeVars, poolVars, sweepVars, inputVars, sigint, submitted, panicked,
                   line_chan, rx_open, shutdown_chan, interrupt, hpc, job_ids,
                   first_error, jobs_lock, jobs_table, job_number, active_jobs,
                   tpc, child, killed>>

\* Every step of both variants when a closure may return a list.
NextList ==
    \/ Next
    \/ \E w \in Workers : JobReturnList(w)
    \/ \E j \in JobIds : ExecReturnList(j)

\* The steps of the tokio variant that the code's scheduling makes happen: the
\* handler thread, the main task and the tasks of the jobs keep running, and
\* an executor whose job has been cancelled unwinds. Nothing makes a job body
\* end of its own accord, an external process exit, the input end or a signal
\* arrive.
TokioProgress ==
    \/ HandlerLock
    \/ \E j \in JobIds : HandlerKill(j)
    \/ HandlerUnlock
    \/ HandlerSend
    \/ LoopShutdown
    \/ LoopLine
    \/ LoopClosed
    \/ TokioMainExit
    \/ \E j \in JobIds : JobAdd(j)
    \/ \E j \in JobIds : ExecInterrupted(j)
    \/ \E j \in JobIds : JobRemove(j)
    \/ \E j \in JobIds : TaskDone(j)

\* The process does not stop while one of these steps can be taken. (Every
\* step moves some thread forward and none is undone, so this is as strong as
\* fairness for each thread on its own.)
FairnessTokio == WF_vars(TokioProgress)

\* The steps of the main thread of the pool variant other than a spurious
\* wakeup: the thread keeps running while it is not blocked.
MainProgress ==
    \/ MainRecvLine
    \/ MainRecvInterrupt
    \/ MainRecvEOF
    \/ \E w \in Workers : Execute(w)
    \/ ExecuteDisconnected
    \/ WaitLock
    \/ WaitCheck
    \/ WaitReacquire
    \/ MainExit

\* The steps of the worker loop around the job body.
WorkerProgress ==
    \/ \E w \in Workers : WorkerIncr(w)
    \/ \E w \in Workers : WorkerDecr(w)
    \/ \E w \in Workers : WorkerNotify(w)

\* Every thread of the pool variant keeps running and every job body returns
\* unless it panics. Nothing makes input or a signal arrive.
FairnessPool ==
    /\ WF_vars(MainProgress)
    /\ WF_vars(WorkerProgress)
    /\ WF_vars(\E w \in Workers : JobReturn(w))

\* As FairnessPool, but the body of job 0 is not required to return: it may
\* stall for ever.
FairnessStall ==
    /\ WF_vars(MainProgress)
    /\ WF_vars(WorkerProgress)
    /\ WF_vars(\E w \in Workers : wjob[w] # 0 /\ JobReturn(w))

\* The steps of the main thread of the background variant.
BgMainProgress ==
    \/ BgPollFinished
    \/ BgPollFlag
    \/ BgSleep
    \/ BgExit

SpecPool == InitPool /\ [][NextPool]_vars
SpecBg == InitBg /\ [][NextBg]_vars
SpecSb == InitSb /\ [][NextSb]_vars
FairBg == InitBg /\ [][NextBg]_vars /\ WF_vars(BgMainProgress)
SpecTimed == InitTimed /\ [][NextTimed]_vars
SpecTokio == InitTokio /\ [][NextTokio]_vars
SpecList == Init /\ [][NextList]_vars
SpecRepeat == InitTokio /\ [][NextRepeat]_vars
SpecPoison == InitTokio /\ [][NextPoison]_vars
FairTokio == InitTokio /\ [][NextTokio]_vars /\ FairnessTokio
FairPool == InitPool /\ [][NextPool]_vars /\ FairnessPool
FairStall == InitPool /\ [][NextPool]_vars /\ FairnessStall
Spec == Init /\ [][Next]_vars

(***************************************************************************)
(* Claims                                                                  *)
(***************************************************************************)

C2_AllReportedAtExit ==
    (/\ variant = "pool"
     /\ pc_main = "done"
     /\ sigint = 0
     /\ ~read_error
     /\ panicked = {}
     /\ \A j \in JobIds : "err" \notin {reports[j][k] : k \in 1..Len(reports[j])})
    => /\ i = nlines
       /\ \A j \in JobIds : j < nlines => reports[j] = <<"ok">>

\* C3: wait_for_completion returns only in a step that reads active_count = 0
\* while main holds the completion lock, and after a wakeup (notified or
\* spurious) the only way on is to take the lock again and repeat the test.
C3_ReturnOnlyOnZero ==
    [][ /\ (pc_main' = "returned" /\ pc_main # "returned")
            => (pc_main = "wait_check" /\ completion_lock = "main" /\ active_count = 0)
        /\ pc_main = "wait_blocked" => pc_main' \in {"wait_blocked", "wait_wake"}
        /\ pc_main = "wait_wake" => pc_main' \in {"wait_wake", "wait_check"}
      ]_vars

\* C3 witness: wait_for_completion has returned after jobs were submitted and
\* their bodies ran to the end.
C3_Witness ==
    /\ variant = "pool"
    /\ pc_main = "returned"
    /\ i >= 1
    /\ \A j \in JobIds : j < i => ReportCount(j) = 1
    /\ active_count = 0

\* C4: once wait_for_completion has returned (main makes no further execute
\* call), active_count is 0 in every later state of the running process.
C4_ZeroAfterReturn ==
    (variant = "pool" /\ pc_main = "returned") => active_count = 0

\* C5: job ids follow arrival order: the k-th job handed over by the event
\* loop has id k-1 and carries the k-th input line, whatever became of the
\* earlier jobs, and the loop's counter is the number of jobs handed over.
C5_IdsInArrivalOrder ==
    /\ \A k \in 1..Len(submitted) : submitted[k] = [id |-> k - 1, line |-> k]
    /\ variant = "pool" => i = Len(submitted)
    /\ variant = "tokio" => job_number = Len(submitted)

\* C5 witness: a second job was submitted after the first one had failed or
\* panicked.
C5_Witness ==
    /\ Len(submitted) >= 2
    /\ (0 \in panicked \/ reports[0] = <<"err">>)

\* C6 as stated: a job whose body was pending when the signal was delivered
\* never ends Completed (its body never returns Ok): it ends Cancelled or Failed.
C6_CancelledOrFailed ==
    [][ \A j \in JobIds :
          (j \in at_interrupt /\ jpc[j] = "eval" /\ jpc'[j] = "remove")
              => reports'[j] # <<"ok">> ]_vars

\* C6 as amended: once the interrupt signal is delivered, every job that the
\* event loop has counted and whose process_job has not returned (spawned but
\* not yet in the table, evaluating, blocked on its external process, or about
\* to remove its entry) eventually has its process_job call over, whatever it
\* reported: a state follows in which no job is in flight. (A job never
\* re-enters process_job, so each job in flight before that state has ended.)
C6_InFlightJobsEnd ==
    (variant = "tokio" /\ sigint > 0)
        ~> (\A j \in JobIds : jpc[j] \notin {"spawned", "eval", "blocked", "remove"})

\* C6 witness: the handler has finished, and a job that was counted but not
\* yet in the table when the signal came has since added its entry.
C6_Witness ==
    /\ variant = "tokio"
    /\ sigint > 0
    /\ hpc = "idle"
    /\ \E j \in at_interrupt : j \in jobs_table /\ jpc[j] = "eval"

\* C7: once the interrupt signal has been delivered, no further input line is
\* submitted as a job.
C7_NoSubmitAfterInterrupt ==
    [][ sigint > 0 => submitted' = submitted ]_vars

\* C8: registry+kill variant: after the interrupt signal is delivered main
\* eventually returns, also when the input never ends.
C8_ExitAfterInterrupt ==
    (variant = "tokio" /\ sigint > 0) ~> (tpc = "done")

\* C8 witness: main has returned after an interrupt while the reader thread
\* was still waiting for input.
C8_Witness ==
    /\ variant = "tokio"
    /\ tpc = "done"
    /\ sigint > 0
    /\ reader_pc = "read"
    /\ Len(submitted) >= 1

\* C9: every live external process is reachable through its job's table
\* entry; once the signal is delivered a live process is one the running
\* sweep has yet to kill; when main has returned no external process is alive.
C9_NoChildSurvives ==
    variant = "tokio" =>
        /\ \A j \in JobIds :
              child[j] = "alive" =>
                  /\ j \in jobs_table
                  /\ sigint > 0 => (hpc = "lock" \/ (hpc = "sweep" /\ j \in job_ids))
        /\ tpc = "done" => \A j \in JobIds : child[j] # "alive"

\* C9 witness: the sweep has killed the external process of a job and the
\* handler has finished.
C9_Witness ==
    /\ variant = "tokio"
    /\ hpc = "idle"
    /\ \E j \in JobIds : child[j] = "killed"

\* C10: a job has an entry in the job table if and only if it is Running:
\* its process_job has added the entry and has neither ended nor been
\* cancelled by the sweep.
C10_EntryIffRunning ==
    variant = "tokio" =>
        \A j \in JobIds :
            j \in jobs_table <=> (jpc[j] \in {"eval", "blocked", "remove"} /\ j \notin killed)

\* Jobs of the pool variant whose body has ended (reported or panicked).
Finished == {j \in JobIds : ReportCount(j) > 0 \/ j \in panicked}

EndTime(j) == start[j] + dur[j]

C13_PanicContained ==
    variant = "pool" =>
        /\ \A w \in Workers : wpc[w] # "dead"
        /\ active_count = Cardinality({w \in Workers : wpc[w] \in {"run", "ran"}})

\* C14: a poisoned job-table lock does not stop cancellation: when the handler
\* is past its sweep step and about to signal the event loop, no job in the
\* table still has a live external process (the sweep has cancelled every
\* live entry).
C14_SweepDespitePoison ==
    (variant = "tokio" /\ hpc = "send") =>
        \A j \in jobs_table : child[j] # "alive"

\* The ids of the entries the sweep has visited so far.
Visited == {visits[k].id : k \in 1..Len(visits)}

\* The first error among the results of the visits, NoError if none failed.
FirstError ==
    IF \E k \in 1..Len(visits) : visits[k].res # NoError
        THEN visits[CHOOSE k \in 1..Len(visits) :
                        /\ visits[k].res # NoError
                        /\ \A m \in 1..(k - 1) : visits[m].res = NoError].res
        ELSE NoError

\* C15: the sweep visits every entry that is in the table when the handler
\* takes the lock, each once, whether or not a kill fails: during the sweep the
\* visited ids and the ids still to visit make up the collected ids, which
\* are the table's entries; when the sweep is over every collected id
\* was visited and removed; and the result is the first error encountered.
C15_SweepVisitsAll ==
    variant = "tokio" =>
        /\ hpc = "sweep" =>
              /\ Visited \cup job_ids = collected
              /\ Visited \cap job_ids = {}
              /\ jobs_table = job_ids
              /\ Len(visits) = Cardinality(Visited)
              /\ first_error = FirstError
        /\ hpc = "send" =>
              /\ Visited = collected
              /\ Len(visits) = Cardinality(collected)
              /\ Visited \cap jobs_table = {}
              /\ first_error = FirstError

\* C15 witness: the sweep is over, it visited two entries, and the kill of
\* the first one it visited had failed.
C15_Witness ==
    /\ variant = "tokio"
    /\ hpc = "send"
    /\ Len(visits) = 2
    /\ visits[1].res # NoError

\* Job j gets an error report line in this step.
ErrReported(j) ==
    /\ Len(reports'[j]) = Len(reports[j]) + 1
    /\ reports'[j][Len(reports'[j])] = "err"

\* The jobs of the tokio variant that active_jobs counts.
Counted == {j \in JobIds : jpc[j] \in {"spawned", "eval", "blocked", "remove", "finished"}}

\* C16: a job that ends with Err is reported and nothing else happens. In the
\* step that reports the error the event loop, its channels and counters and
\* every other job and worker are unchanged, and the job's worker or task goes
\* on exactly as after a success (to its decrement, to remove_job); the loop
\* leaves its receiving state only on EOF, Interrupt, shutdown or a closed
\* channel; and, with no panic, the counters count exactly the jobs in progress.
C16_JobErrorContained ==
    [][ /\ \A j \in JobIds : ErrReported(j) =>
              /\ <<pc_main, events, i, cur_line, submitted>>' = <<pc_main, events, i, cur_line, submitted>>
              /\ <<tpc, line_chan, rx_open, shutdown_chan, job_number>>' =
                     <<tpc, line_chan, rx_open, shutdown_chan, job_number>>
              /\ <<active_count, active_jobs, panicked, jobs_table>>' =
                     <<active_count, active_jobs, panicked, jobs_table>>
              /\ \A k \in JobIds \ {j} :
                     <<reports[k], jpc[k], child[k]>>' = <<reports[k], jpc[k], child[k]>>
              /\ \A w \in Workers :
                     IF wjob[w] = j THEN wpc'[w] = "ran" ELSE wpc'[w] = wpc[w]
              /\ variant = "tokio" => jpc'[j] = "remove"
        /\ (pc_main = "recv" /\ pc_main' = "wait_lock")
              => Head(events).type \in {"Interrupt", "EOF"}
        /\ (pc_main' = "panicked") => panicked # {}
        /\ (tpc = "loop" /\ tpc' # "loop")
              => (shutdown_chan > 0 \/ (line_chan = <<>> /\ reader_pc = "done"))
        /\ (variant = "pool" /\ panicked = {})
              => active_count = Cardinality({w \in Workers : wpc[w] \in {"run", "ran"}})
        /\ variant = "tokio" => active_jobs = Cardinality(Counted)
      ]_vars

\* C16 witness: on a pool of one worker the first job ended with an error and
\* the second job was then accepted, run by the same worker and reported.
C16_Witness ==
    /\ variant = "pool"
    /\ size = 1
    /\ reports[0] = <<"err">>
    /\ reports[1] = <<"ok">>
    /\ active_count = 0

\* A step of the handler: the delivery of the signal or a step of its run.
HandlerStep == sigint' # sigint \/ hpc' # hpc \/ job_ids' # job_ids

\* C17: a repeated interrupt changes nothing beyond the first. The flag, once
\* set, stays set; and in every handler step of a repeated run there is no
\* panic, the shutdown channel and the event loop are unchanged (the try_send on
\* the full or closed channel is dropped), no job, external process, counter or
\* report changes, the table gains no entry, and a sweep that collected
\* nothing (a swept table) leaves the table as it is.
C17_RepeatedInterrupt ==
    [][ /\ interrupt => interrupt'
        /\ (variant = "tokio" /\ sigint' >= 2 /\ HandlerStep) =>
              /\ interrupt /\ interrupt'
              /\ panicked' = panicked
              /\ <<shutdown_chan, rx_open, tpc, line_chan, job_number>>' =
                     <<shutdown_chan, rx_open, tpc, line_chan, job_number>>
              /\ <<jpc, child, active_jobs, reports, submitted>>' =
                     <<jpc, child, active_jobs, reports, submitted>>
              /\ jobs_table' \subseteq jobs_table
              /\ (hpc = "sweep" /\ collected = {}) =>
                     (jobs_table' = jobs_table /\ hpc' = "send")
      ]_vars

\* C17 witness: the handler has run to its end a second time while the event
\* loop had not yet taken the first shutdown message: its try_send found the
\* channel full.
C17_Witness ==
    /\ variant = "tokio"
    /\ sigint >= 2
    /\ hpc = "idle"
    /\ tpc = "loop"
    /\ shutdown_chan = ShutdownCap

\* C18: the handler does its three steps in order. While it runs the flag is
\* set (it was set before the lock was asked for); it gets to the shutdown
\* signal only from a sweep that has visited every collected id and released
\* the lock, or from a lock found poisoned; and the shutdown channel receives a
\* message only in the handler's last step.
C18_HandlerStepOrder ==
    [][ variant = "tokio" =>
          /\ hpc' \in {"lock", "sweep", "send"} => interrupt'
          /\ (hpc' = "sweep" /\ hpc # "sweep") => (hpc = "lock" /\ interrupt)
          /\ (hpc' = "send" /\ hpc # "send") =>
                \/ /\ hpc = "sweep"
                   /\ job_ids = {}
                   /\ Visited = collected
                   /\ jobs_lock' = "free"
                \/ hpc = "lock" /\ jobs_lock = "poisoned"
          /\ hpc' = "send" => jobs_lock' # "handler"
          /\ shutdown_chan' > shutdown_chan => (hpc = "send" /\ hpc' = "idle")
      ]_vars

\* C18 witness: the flag is set, the sweep has visited an entry and is over,
\* the lock is released and the handler is about to send the shutdown signal.
C18_Witness ==
    /\ variant = "tokio"
    /\ hpc = "send"
    /\ interrupt
    /\ Len(visits) >= 1
    /\ jobs_lock = "free"
    /\ shutdown_chan = 0

\* C19: tokio variant, drain after end of input with no interrupt: when main
\* has returned, every line the loop received has had its process_job call
\* finish and its task end, and its entry is no longer in the job table.
C19_DrainComplete ==
    (variant = "tokio" /\ tpc = "done" /\ sigint = 0) =>
        /\ active_jobs = 0
        /\ \A j \in JobIds : j < job_number => jpc[j] = "done"
        /\ jobs_table = {}

\* The process has ended: main has returned or has panicked.
Exited == pc_main \in {"done", "panicked"} \/ tpc = "done"

\* The exit status: 0 when main returns Ok(()), 101 when the main thread
\* panics.
ExitStatus == IF pc_main = "panicked" THEN 101 ELSE 0

\* C20: once the event loop has started the process never exits with a
\* status other than 0, whatever the jobs do (fail, panic) and whether or not
\* an interrupt arrives.
C20_ExitStatusZero ==
    Exited => ExitStatus = 0

\* The body of job j has returned (Ok or Err) and its result has been printed.
Returned(j) ==
    \/ variant = "tokio" /\ jpc[j] \in {"remove", "finished", "done"} /\ j \notin panicked
    \/ /\ variant = "pool"
       /\ runs[j] = 1
       /\ j \notin panicked
       /\ \A w \in Workers : wjob[w] = j => wpc[w] = "ran"

\* C21: each finished job has exactly one report line (one "ok" line on
\* standard output or one "err" line on standard error), and no job ever has
\* more than one.
C21_OneReportLine ==
    \A j \in JobIds :
        /\ Len(reports[j]) <= 1
        /\ Returned(j) => Len(reports[j]) = 1

\* A deterministic executor: the value eval_closure reports is a function of
\* the input line and the job number it is given, and of nothing else. The
\* function is one-to-one, so that any difference in what is passed shows.
ExecValue(line, id) == line * (MaxLines + 1) + id

NotCompleted == {j \in 0..(i - 1) : \E w \in Workers : wjob[w] = j}

\* C23: the pool's counter. active_count is never negative (the decrement
\* does not underflow), it counts exactly the workers that have incremented
\* for the job they hold and not decremented since, so it is at most the
\* number of accepted jobs not yet completed and at most the pool's size.
C23_CounterBounds ==
    variant = "pool" =>
        /\ active_count >= 0
        /\ active_count = Cardinality({w \in Workers : wpc[w] \in {"run", "ran", "dead"}})
        /\ active_count <= Cardinality(NotCompleted)
        /\ active_count <= size
        /\ \A w \in Workers : wpc[w] = "ran" => active_count >= 1

\* C23 witness: every worker of a pool of two is inside a job body and the
\* counter is at the pool's size.
C23_Witness ==
    /\ variant = "pool"
    /\ size = 2
    /\ active_count = 2
    /\ \A w \in Workers : wpc[w] = "run"

\* C24: the handler does nothing but set the flag and try a non-blocking
\* send: it is never at a lock acquisition, never inside a critical section,
\* and never the holder of the job-table lock.
C24_HandlerNonBlocking ==
    /\ hpc \in {"idle", "send"}
    /\ jobs_lock # "handler"

C26_SweepRemoveRace ==
    [][ variant = "tokio" =>
          /\ hpc = "sweep" => job_ids \subseteq jobs_table
          /\ killed \cap jobs_table = {}
          /\ \A j \in JobIds :
                /\ (jpc[j] \in {"finished", "done"} /\ j \notin panicked)
                       => j \notin jobs_table
                /\ (jpc[j] = "remove" /\ jpc'[j] = "finished") =>
                       /\ panicked' = panicked
                       /\ j \notin jobs_table'
                       /\ j \in killed => jobs_table' = jobs_table
                /\ (j \in job_ids /\ j \notin job_ids') =>
                       /\ panicked' = panicked
                       /\ j \notin jobs_table'
      ]_vars

\* C26 witness: the sweep has killed and removed the entry of a job whose
\* body had already returned; the handler is done and the job is about to
\* call remove_job for the entry that is no longer there.
C26_Witness ==
    /\ variant = "tokio"
    /\ hpc = "idle"
    /\ \E j \in killed : jpc[j] = "remove" /\ reports[j] = <<"ok">>

\* C27: no lost wakeup. Once main is blocked in cvar.wait inside
\* wait_for_completion it is eventually woken, and it eventually returns from
\* wait_for_completion, provided every body returns (no worker has died in a
\* panic); no spurious wakeup is needed for that.
C27_NoLostWakeup ==
    /\ (variant = "pool" /\ pc_main = "wait_blocked")
          ~> (pc_main # "wait_blocked" \/ panicked # {})
    /\ (variant = "pool" /\ pc_main = "wait_blocked")
          ~> (pc_main \in {"returned", "done"} \/ panicked # {})

\* C27 witness: main is parked in cvar.wait, the counter has just been brought
\* to zero by a worker that has not yet taken the lock to notify.
C27_Witness ==
    /\ variant = "pool"
    /\ pc_main = "wait_blocked"
    /\ active_count = 0
    /\ panicked = {}
    /\ \E w \in Workers : wpc[w] = "notify"

\* C28: a stalled job occupies exactly one worker. With at least two workers,
\* in every run in which the body of job 0 never returns and no body panics,
\* every later job that main hands to execute() is eventually accepted
\* (execute returns) and eventually prints its report.
C28_OthersRunToCompletion ==
    \A j \in JobIds \ {0} :
        \/ <>(ReportCount(0) > 0 \/ panicked # {})
        \/ (variant = "pool" /\ size >= 2 /\ pc_main = "execute" /\ i = j)
              ~> (i > j /\ ReportCount(j) > 0)

\* C29: shutdown has priority in process_input_lines. From a state in which
\* the loop is polling and a shutdown message is pending, no step receives a
\* line, takes a job number or spawns a job, whatever the line channel holds;
\* the only step of the loop is the one that takes the shutdown message and
\* leaves the loop.
C29_ShutdownPriority ==
    [][ (variant = "tokio" /\ tpc = "loop" /\ shutdown_chan > 0) =>
          /\ submitted' = submitted
          /\ job_number' = job_number
          /\ \A j \in JobIds : jpc[j] = "none" => jpc'[j] = "none"
          /\ active_jobs' <= active_jobs
          /\ \/ tpc' = "loop" /\ shutdown_chan' = shutdown_chan
                   /\ SubSeq(line_chan', 1, Len(line_chan)) = line_chan
             \/ tpc' = "wait" /\ shutdown_chan' = 0
      ]_vars

\* C29 witness: the loop polls with a shutdown message pending while a line
\* is waiting in the line channel.
C29_Witness ==
    /\ variant = "tokio"
    /\ tpc = "loop"
    /\ shutdown_chan > 0
    /\ line_chan # <<>>
    /\ job_number \in JobIds

\* The input lines that have been submitted as jobs.
SubmittedLines == {submitted[k].line : k \in 1..Len(submitted)}

\* The input lines of the Line events of a sequence of events.
QueuedLines(q) == {q[k].line : k \in {m \in 1..Len(q) : q[m].type = "Line"}}

\* Sequence q extends sequence p at the back.
IsPrefix(p, q) == Len(p) <= Len(q) /\ SubSeq(q, 1, Len(p)) = p

\* C30: the pool variant handles the Interrupt event in arrival order. Jobs
\* are submitted in the order of the lines; the loop takes events from the
\* front of the channel only; when the loop receives Interrupt,
\* the submitted lines are exactly the lines enqueued before it (all the
\* lines sent so far but those still queued behind it); once the loop has
\* ended nothing more is taken from the channel or submitted; and while main
\* is in execute() it takes nothing from the channel, and it leaves execute()
\* normally only by handing the job to a worker that was free in rx.recv().
C30_InterruptInArrivalOrder ==
    /\ [](variant = "pool" =>
            /\ \A k \in 1..Len(submitted) : submitted[k].line = k
            /\ (pc_main = "recv" /\ events # <<>> /\ Head(events).type = "Interrupt")
                  => SubmittedLines = (1..(next_line - 1)) \ QueuedLines(Tail(events)))
    /\ [][ variant = "pool" =>
             /\ pc_main = "recv" =>
                   \/ pc_main' = "recv" /\ IsPrefix(events, events')
                   \/ /\ events # <<>>
                      /\ events' = Tail(events)
                      /\ pc_main' = IF Head(events).type = "Line"
                                       THEN "execute" ELSE "wait_lock"
             /\ pc_main \notin {"recv", "execute"} =>
                   submitted' = submitted /\ IsPrefix(events, events')
             /\ pc_main = "execute" =>
                   /\ IsPrefix(events, events')
                   /\ pc_main' \in {"execute", "recv", "panicked"}
                   /\ pc_main' = "recv" =>
                         \E w \in Workers : wpc[w] = "recv" /\ wpc'[w] = "got"
                   /\ (\A w \in Workers : wpc[w] # "recv") =>
                         pc_main' # "recv" /\ submitted' = submitted
       ]_vars

\* C30 witness: the loop has handled the Interrupt after submitting the line
\* that was enqueued before it; the line and the EOF enqueued after it are
\* left in the channel.
C30_Witness ==
    /\ variant = "pool"
    /\ pc_main = "wait_lock"
    /\ sigint = 1
    /\ SubmittedLines = {1}
    /\ events = <<LineEvent(2), EOFEvent>>

\* The event loop of the pool variant has ended by handling an Interrupt
\* event: main is past the loop and one of the Interrupt events sent has been
\* taken from the channel.
LoopEndedByInterrupt ==
    /\ variant = "pool"
    /\ pc_main \in {"wait_lock", "wait_check", "wait_blocked", "wait_wake",
                     "returned", "done"}
    /\ Len(SelectSeq(events, LAMBDA e : e.type = "Interrupt")) < sigint

\* C31: pool variant: after an Interrupt event main returns only after every
\* running job has finished on its own: when main has returned from
\* wait_for_completion after an interrupt, no worker is inside a job body.
C31_ReturnAfterRunningJobs ==
    (LoopEndedByInterrupt /\ pc_main \in {"returned", "done"})
        => \A w \in Workers : wpc[w] # "run"

\* C32: background variant: main leaves the poll loop exactly when
\* is_finished() was true (finished path) or the interrupt flag was set when
\* it was loaded (interrupt path), and it leaves whenever it observes either.
\* The interrupt path has made exactly one kill_and_remove call, the finished
\* path none. Once the flag is set main starts no new sleep, and it
\* terminates whether or not the thread ever ends.
C32_PollLoopExit ==
    /\ [](variant = "bg" =>
            /\ exit_path = "none" <=> bg_main \in {"poll_finished", "poll_flag", "sleep"}
            /\ exit_path = "finished" => kill_calls = 0
            /\ exit_path = "interrupt" => kill_calls = 1 /\ bg_interrupt
            /\ exit_path = "none" => kill_calls = 0)
    /\ [][ variant = "bg" =>
             /\ bg_main' = "return" =>
                   \/ bg_main = "return"
                   \/ /\ bg_main = "poll_finished"
                      /\ background_thread = "finished"
                      /\ exit_path' = "finished"
                   \/ /\ bg_main = "poll_flag"
                      /\ bg_interrupt
                      /\ exit_path' = "interrupt"
             /\ (bg_main = "poll_finished" /\ background_thread = "finished")
                   => bg_main' \in {"poll_finished", "return"}
             /\ (bg_main = "poll_flag" /\ bg_interrupt)
                   => bg_main' \in {"poll_flag", "return"}
             /\ (bg_main' = "sleep" /\ bg_main # "sleep") => ~bg_interrupt
       ]_vars
    /\ (variant = "bg" /\ bg_interrupt) ~> (bg_main = "exited")

\* C32 witness: main has exited by the interrupt path while the thread is
\* still waiting for its external command, which the kill has ended.
C32_Witness ==
    /\ variant = "bg"
    /\ bg_main = "exited"
    /\ exit_path = "interrupt"
    /\ background_thread = "blocked"
    /\ bg_child = "killed"
    /\ kill_calls = 1

\* C33: background variant: the job's table entry is removed on every path
\* by which the thread ends: once the thread has finished, the table has no
\* entry for its job.
C33_NoEntryOutlivesThread ==
    (variant = "bg" /\ background_thread = "finished") => 0 \notin bg_table

\* The tasks spawned by process_input_lines that have not yet decremented
\* the counter.
ActiveTasks == {j \in JobIds : jpc[j] \notin {"none", "done"}}

\* C34: tokio variant: active_jobs equals the number of spawned tasks that
\* have not yet come to their end, and is never negative; every job number
\* taken has one task; the counter goes up by one exactly in the step that
\* receives a line and spawns its task, and down by one exactly in the step in
\* which a task whose process_job call has ended (returned or panicked) ends.
C34_ActiveJobsCount ==
    /\ [](variant = "tokio" =>
            /\ active_jobs >= 0
            /\ active_jobs = Cardinality(ActiveTasks)
            /\ job_number = Len(submitted)
            /\ {j \in JobIds : jpc[j] # "none"} = {j \in JobIds : j < job_number})
    /\ [][ variant = "tokio" =>
             /\ active_jobs' \in {active_jobs - 1, active_jobs, active_jobs + 1}
             /\ active_jobs' = active_jobs + 1 <=>
                   (job_number' = job_number + 1 /\ jpc'[job_number] = "spawned")
             /\ active_jobs' = active_jobs - 1 <=>
                   \E j \in JobIds : jpc[j] = "finished" /\ jpc'[j] = "done"
             /\ \A j \in JobIds : jpc[j] = "done" => jpc'[j] = "done"
       ]_vars

\* C34 witness: a task whose process_job call panicked has ended and the
\* counter is back at zero after two tasks.
C34_Witness ==
    /\ variant = "tokio"
    /\ job_number = 2
    /\ active_jobs = 0
    /\ \E j \in panicked : jpc[j] = "done"

\* C35: deadlock freedom of the job-table lock. A handler that has started
\* (it is waiting for the lock, sweeping, or about to send) always comes to
\* the end of its run, after its try_send, unless the process exits first;
\* and a job thread that is at its add_job or remove_job section while the
\* handler holds the lock always gets through that section.
C35_LockDeadlockFree ==
    /\ (variant = "tokio" /\ hpc # "idle") ~> (hpc = "idle" \/ tpc = "done")
    /\ \A j \in JobIds :
          (jobs_lock = "handler" /\ jpc[j] \in {"spawned", "remove"})
             ~> (jobs_lock # "handler" /\ jpc[j] \notin {"spawned", "remove"})

\* C35 witness: the handler holds the lock in its sweep while one job thread
\* waits to add its entry and another waits to remove its own.
C35_Witness ==
    /\ variant = "tokio"
    /\ jobs_lock = "handler"
    /\ hpc = "sweep"
    /\ \E j, k \in JobIds : jpc[j] = "spawned" /\ jpc[k] = "remove"

\* Number of EOF events in the event channel.
EOFCount == Len(SelectSeq(events, LAMBDA e : e.type = "EOF"))

\* The lines of the Line events of the event channel, in channel order.
LineSeq ==
    LET sel == SelectSeq(events, LAMBDA e : e.type = "Line")
    IN  [k \in 1..Len(sel) |-> sel[k].line]

\* Number of Line events main has taken from the channel.
Consumed == Len(submitted) + (IF pc_main = "execute" THEN 1 ELSE 0)

\* C36: pool variant input source. The Line events in the channel are the
\* lines read and not yet taken by main, in input order; at most one EOF is
\* in the channel, it is there once the reader has ended (also on a read
\* error) and main is still in its loop, and no Line event follows it; with no
\* interrupt, when main has left the loop it has submitted every line the
\* reader has read, in order, and the channel is empty.
C36_LinesThenEOF ==
    variant = "pool" =>
        /\ EOFCount <= 1
        /\ EOFCount = 1 => reader_pc = "done"
        /\ (reader_pc = "done" /\ pc_main \in {"recv", "execute", "panicked"})
              => EOFCount = 1
        /\ \A k \in 1..Len(events) : events[k].type = "EOF" =>
              \A m \in (k + 1)..Len(events) : events[m].type # "Line"
        /\ pc_main # "panicked" =>
              /\ Consumed + Len(LineSeq) = next_line - 1
              /\ \A k \in 1..Len(LineSeq) : LineSeq[k] = Consumed + k
        /\ \A k \in 1..Len(submitted) : submitted[k].line = k
        /\ (sigint = 0 /\ pc_main \notin {"recv", "execute", "panicked"}) =>
              /\ reader_pc = "done"
              /\ Len(submitted) = next_line - 1
              /\ ~read_error => Len(submitted) = nlines
              /\ events = <<>>

\* C36 witness: with no interrupt main has left the loop on the EOF that
\* followed a read error after the first of two lines; that line was
\* submitted.
C36_Witness ==
    /\ variant = "pool"
    /\ sigint = 0
    /\ pc_main = "wait_lock"
    /\ read_error
    /\ nlines = 2
    /\ Len(submitted) = 1

\* The parse of the script has left a parse error or a compile error.
SbHasErrors == script.parse_errors # <<>> \/ script.compile_errors # <<>>

\* main has called parse_checked_block and has exited since.
SbExitedAfterParse ==
    sb_pc = "exited" /\ sb_error.error \notin {"panic", "boot"}

\* What holds of every run of the sandbox front end on a script with errors:
\* nothing is evaluated or printed, main never gets past the check, it exits
\* with an error, and the error is made from the first parse error if there
\* is one, else from the first compile error.
SbErrorsStopMain ==
    /\ SbHasErrors =>
          /\ evals = 0
          /\ sb_out = <<>>
          /\ sb_pc \notin {"merge", "eval", "value"}
          /\ sb_pc = "exited" => sb_error # NoSbError
    /\ (SbExitedAfterParse /\ script.parse_errors # <<>>) =>
          sb_error = SbError("Parse error", Head(script.parse_errors))
    /\ (SbExitedAfterParse /\ script.parse_errors = <<>>
                            /\ script.compile_errors # <<>>) =>
          sb_error = SbError("Compile error", Head(script.compile_errors))

\* C37 as stated: a script with parse or compile errors makes main exit
\* non-zero before anything is evaluated, a parse error is reported in
\* preference to a compile error, and a script with neither has been
\* evaluated exactly once when main exits.
C37_CheckedThenEvaluatedOnce ==
    variant = "sandbox" =>
        /\ SbErrorsStopMain
        /\ (SbExitedAfterParse /\ ~SbHasErrors) => evals = 1

\* C37, amended: as stated, but a script with neither error is evaluated at
\* most once, and exactly once when the merge of the parsed block into the
\* engine has succeeded.
C37_CheckedThenEvaluatedAtMostOnce ==
    variant = "sandbox" =>
        /\ SbErrorsStopMain
        /\ evals <= 1
        /\ (SbExitedAfterParse /\ ~SbHasErrors /\ sb_error.error # "merge")
              => evals = 1

\* C37 witness: a script whose parse left two different parse errors and a
\* compile error has made main exit with the error made from the first
\* parse error.
C37_Witness ==
    /\ variant = "sandbox"
    /\ sb_pc = "exited"
    /\ Len(script.parse_errors) = 2
    /\ script.parse_errors[1] # script.parse_errors[2]
    /\ script.compile_errors # <<>>
    /\ sb_error = SbError("Parse error", script.parse_errors[1])
    /\ evals = 0

====
